---- MODULE Spec2Model ----
(***************************************************************************)
(* Legal-document retrieval pipeline of capstone/backend/app/services:     *)
(* the chunker (document_processor.py), chunk storage                      *)
(* (document_storage.py), the feature-vector encoder                       *)
(* (embedding_service.py), the hybrid search with its result cache         *)
(* (search_service.py), the answer services (rag_service.py,               *)
(* enhanced_rag_service.py) and the query optimizer                        *)
(* (query_optimization_service.py).                                        *)
(*                                                                         *)
(* Text is a sequence of one-character strings.  Every subsystem has its   *)
(* own specification over the shared variables; a specification leaves the *)
(* variables of the other subsystems unchanged.                            *)
(***************************************************************************)
EXTENDS Integers, Sequences, FiniteSets, TLC

VARIABLES
    file,             \* chunker: the file handed to process_document
    processed_doc,    \* chunker: what process_document returned for it
    document,         \* ingestion: the row of table "documents"
    document_chunks,  \* ingestion: the rows of table "document_chunks", in insertion order
    background_tasks, \* ingestion: the process_document_background tasks started so far
    embedding_dimension, \* encoder: settings.EMBEDDING_DIMENSION
    text_in,          \* encoder: the text handed to _generate_text_embedding
    embedding,        \* encoder: the vector it returned
    merge_in,         \* merge: the two result lists, the intent and the limit
    merge_out,        \* merge: what the merge functions and semantic_search returned
    _search_cache,    \* search: self._search_cache, cache key -> result and timestamp
    now,              \* search: datetime.utcnow(), in minutes
    indexed,          \* search: ids of the chunks the store holds with an embedding
    call,             \* search: the latest call of advanced_semantic_search
    stored_calls,     \* search: the calls that wrote their result to the cache
    score_in,         \* confidence: the context chunks and the answer text
    score_out,        \* confidence: the confidence scores computed for them
    answering,        \* answers: the question being answered, from request to response
    earlier_call,     \* repeated calls: a call of the chunker or the encoder made before
    latest_call,      \* repeated calls: the latest call of the chunker or the encoder
    calls_since,      \* repeated calls: how many calls were made after earlier_call
    chunk_rows,       \* embedding: the document's rows of table "document_chunks"
    chunk_embedding,  \* embedding: column "embedding" of those rows, by chunk id
    embedding_run,    \* embedding: the run of generate_embeddings_for_document
    context_in,       \* context: a search result list and the context limit
    context_out,      \* context: the chunks an answer service hands to the model
    _optimization_cache, \* optimizer: self._optimization_cache, cache key -> result and timestamp
    optimizer_now,    \* optimizer: datetime.utcnow(), in seconds
    optimized,        \* optimizer: the latest call of optimize_query
    answer_request,   \* phases: an answer request and the phases it has run
    access_call       \* access: the latest search made with a user id

chunkerVars == <<file, processed_doc>>

ingestVars == <<document, document_chunks, background_tasks>>

encoderVars == <<embedding_dimension, text_in, embedding>>

mergeVars == <<merge_in, merge_out>>

searchVars == <<_search_cache, now, indexed, call, stored_calls>>

confidenceVars == <<score_in, score_out>>

answerVars == <<answering>>

repeatVars == <<earlier_call, latest_call, calls_since>>

embedVars == <<chunk_rows, chunk_embedding, embedding_run>>

contextVars == <<context_in, context_out>>

optimizerVars == <<_optimization_cache, optimizer_now, optimized>>

phaseVars == <<answer_request>>

accessVars == <<access_call>>

vars ==
    <<chunkerVars, ingestVars, encoderVars, mergeVars, searchVars, confidenceVars,
      answerVars, repeatVars, embedVars, contextVars, optimizerVars, phaseVars, accessVars>>

\* What each subsystem leaves alone
notChunkerVars ==
    <<ingestVars, encoderVars, mergeVars, searchVars, confidenceVars, answerVars,
      repeatVars, embedVars, contextVars, optimizerVars, phaseVars, accessVars>>

notIngestVars ==
    <<chunkerVars, encoderVars, mergeVars, searchVars, confidenceVars, answerVars,
      repeatVars, embedVars, contextVars, optimizerVars, phaseVars, accessVars>>

notEncoderVars ==
    <<chunkerVars, ingestVars, mergeVars, searchVars, confidenceVars, answerVars,
      repeatVars, embedVars, contextVars, optimizerVars, phaseVars, accessVars>>

notMergeVars ==
    <<chunkerVars, ingestVars, encoderVars, searchVars, confidenceVars, answerVars,
      repeatVars, embedVars, contextVars, optimizerVars, phaseVars, accessVars>>

notSearchVars ==
    <<chunkerVars, ingestVars, encoderVars, mergeVars, confidenceVars, answerVars,
      repeatVars, embedVars, contextVars, optimizerVars, phaseVars, accessVars>>

notConfidenceVars ==
    <<chunkerVars, ingestVars, encoderVars, mergeVars, searchVars, answerVars,
      repeatVars, embedVars, contextVars, optimizerVars, phaseVars, accessVars>>

\* An answer request searches through the cache, so it leaves the search
\* variables unchanged one by one
notAnswerVars ==
    <<chunkerVars, ingestVars, encoderVars, mergeVars, confidenceVars, repeatVars,
      embedVars, contextVars, optimizerVars, phaseVars, accessVars>>

\* The encoder's dimension is read, never written, by the repeated calls
notRepeatVars ==
    <<chunkerVars, ingestVars, encoderVars, mergeVars, searchVars, confidenceVars,
      answerVars, embedVars, contextVars, optimizerVars, phaseVars, accessVars>>

\* The encoder's dimension is read, never written, by the embedding runs
notEmbedVars ==
    <<chunkerVars, ingestVars, encoderVars, mergeVars, searchVars, confidenceVars,
      answerVars, repeatVars, contextVars, optimizerVars, phaseVars, accessVars>>

notContextVars ==
    <<chunkerVars, ingestVars, encoderVars, mergeVars, searchVars, confidenceVars,
      answerVars, repeatVars, embedVars, optimizerVars, phaseVars, accessVars>>

notOptimizerVars ==
    <<chunkerVars, ingestVars, encoderVars, mergeVars, searchVars, confidenceVars,
      answerVars, repeatVars, embedVars, contextVars, phaseVars, accessVars>>

notPhaseVars ==
    <<chunkerVars, ingestVars, encoderVars, mergeVars, searchVars, confidenceVars,
      answerVars, repeatVars, embedVars, contextVars, optimizerVars, accessVars>>

\* The encoder's dimension and the store are read, never written, by the
\* searches made with a user id
notAccessVars ==
    <<chunkerVars, ingestVars, encoderVars, mergeVars, searchVars, confidenceVars,
      answerVars, repeatVars, embedVars, contextVars, optimizerVars, phaseVars>>

(***************************************************************************)
(* Generic helpers                                                         *)
(***************************************************************************)
SeqsUpTo(S, n) == UNION {[1..k -> S] : k \in 0..n}

RECURSIVE SumSeq(_)
SumSeq(s) == IF s = <<>> THEN 0 ELSE Head(s) + SumSeq(Tail(s))

Min(a, b) == IF a < b THEN a ELSE b

Max(a, b) == IF a > b THEN a ELSE b

(***************************************************************************)
(* Python str primitives used by the services                              *)
(***************************************************************************)
NL == "\n"

\* str.strip() with no argument removes leading and trailing whitespace
Whitespace == {" ", NL, "\t"}

RECURSIVE LStrip(_)
LStrip(s) ==
    IF s # <<>> /\ Head(s) \in Whitespace THEN LStrip(Tail(s)) ELSE s

RECURSIVE RStrip(_)
RStrip(s) ==
    IF s # <<>> /\ s[Len(s)] \in Whitespace
    THEN RStrip(SubSeq(s, 1, Len(s) - 1))
    ELSE s

Strip(s) == RStrip(LStrip(s))

\* str.lower(), one character at a time
LowerChar(c) ==
    CASE c = "A" -> "a"
      [] c = "B" -> "b"
      [] c = "C" -> "c"
      [] c = "D" -> "d"
      [] c = "E" -> "e"
      [] c = "F" -> "f"
      [] c = "G" -> "g"
      [] c = "H" -> "h"
      [] c = "I" -> "i"
      [] c = "J" -> "j"
      [] c = "K" -> "k"
      [] c = "L" -> "l"
      [] c = "M" -> "m"
      [] c = "N" -> "n"
      [] c = "O" -> "o"
      [] c = "P" -> "p"
      [] c = "Q" -> "q"
      [] c = "R" -> "r"
      [] c = "S" -> "s"
      [] c = "T" -> "t"
      [] c = "U" -> "u"
      [] c = "V" -> "v"
      [] c = "W" -> "w"
      [] c = "X" -> "x"
      [] c = "Y" -> "y"
      [] c = "Z" -> "z"
      [] OTHER -> c

Lower(s) == [i \in 1..Len(s) |-> LowerChar(s[i])]

StartsWith(s, p) == Len(p) <= Len(s) /\ SubSeq(s, 1, Len(p)) = p

\* `sub in s`
Contains(s, sub) ==
    \E i \in 1..(Len(s) - Len(sub) + 1) : SubSeq(s, i, i + Len(sub) - 1) = sub

\* Index of the first occurrence of sep in s at or after position from; 0 if none
FirstIndex(s, sep, from) ==
    LET hits == {i \in from..(Len(s) - Len(sep) + 1) :
                     SubSeq(s, i, i + Len(sep) - 1) = sep}
    IN IF hits = {} THEN 0 ELSE CHOOSE i \in hits : \A j \in hits : i <= j

\* str.split(sep): left to right, non-overlapping, empty pieces kept
RECURSIVE Split(_, _)
Split(s, sep) ==
    LET i == FirstIndex(s, sep, 1)
    IN IF i = 0 THEN <<s>>
       ELSE <<SubSeq(s, 1, i - 1)>> \o Split(SubSeq(s, i + Len(sep), Len(s)), sep)

\* str.split() with no argument: the whitespace-separated words
RECURSIVE Words(_)
Words(s) ==
    LET t == LStrip(s)
        ends == {i \in 1..Len(t) : t[i] \in Whitespace}
        e == IF ends = {} THEN Len(t) + 1
             ELSE CHOOSE i \in ends : \A j \in ends : i <= j
    IN IF t = <<>> THEN <<>>
       ELSE <<SubSeq(t, 1, e - 1)>> \o Words(SubSeq(t, e, Len(t)))

CountChar(s, c) == Cardinality({i \in 1..Len(s) : s[i] = c})

(***************************************************************************)
(* Chunker: document_processor.py                                          *)
(***************************************************************************)
\* Paragraphs longer than this are split on sentence boundaries
LongParagraph == 1000

SentenceSep == <<".", " ">>

ParagraphSep == <<NL, NL>>

\* The sentence loop of _split_into_paragraphs
RECURSIVE SplitLong(_, _, _, _)
SplitLong(sentences, i, current_para, out) ==
    IF i > Len(sentences)
    THEN IF current_para # <<>> THEN Append(out, Strip(current_para)) ELSE out
    ELSE LET sentence == sentences[i]
         IN IF Len(current_para \o sentence) > LongParagraph /\ current_para # <<>>
            THEN SplitLong(sentences, i + 1, sentence \o SentenceSep,
                           Append(out, Strip(current_para)))
            ELSE SplitLong(sentences, i + 1,
                           current_para \o sentence \o SentenceSep, out)

RECURSIVE SplitEach(_, _, _)
SplitEach(paragraphs, i, final_paragraphs) ==
    IF i > Len(paragraphs) THEN final_paragraphs
    ELSE LET para == paragraphs[i]
         IN IF Len(para) > LongParagraph
            THEN SplitEach(paragraphs, i + 1,
                           final_paragraphs \o
                               SplitLong(Split(para, SentenceSep), 1, <<>>, <<>>))
            ELSE SplitEach(paragraphs, i + 1,
                           Append(final_paragraphs, Strip(para)))

_split_into_paragraphs(text) ==
    SelectSeq(SplitEach(Split(text, ParagraphSep), 1, <<>>), LAMBDA p : p # <<>>)

KwArticle == <<"a", "r", "t", "i", "c", "l", "e">>

KwSection == <<"s", "e", "c", "t", "i", "o", "n">>

KwClause == <<"c", "l", "a", "u", "s", "e">>

KwParagraph == <<"p", "a", "r", "a", "g", "r", "a", "p", "h">>

KwDefinitions == <<"d", "e", "f", "i", "n", "i", "t", "i", "o", "n", "s">>

KwForPurposesOf ==
    <<"f", "o", "r", " ", "p", "u", "r", "p", "o", "s", "e", "s", " ", "o", "f">>

Enumerators ==
    { <<"(", "a", ")">>, <<"(", "b", ")">>, <<"(", "1", ")">>, <<"(", "2", ")">>,
      <<"a", ".">>, <<"b", ".">>, <<"1", ".">>, <<"2", ".">> }

\* The rules with the definition rule tried first
IdentifyDefinitionFirst(text) ==
    LET text_lower == Strip(Lower(text))
    IN IF Contains(text_lower, KwDefinitions)
          \/ StartsWith(text_lower, KwForPurposesOf)
       THEN "definition"
       ELSE IF \E w \in {KwArticle, KwSection, KwClause, KwParagraph} :
                   Contains(text_lower, w)
            THEN IF \E w \in {KwArticle, KwSection, KwClause} :
                        StartsWith(text_lower, w)
                 THEN "heading"
                 ELSE "clause"
            ELSE IF \E e \in Enumerators : StartsWith(text_lower, e)
                 THEN "list_item"
                 ELSE "paragraph"

_identify_chunk_type(text) ==
    LET text_lower == Strip(Lower(text))
    IN IF \E w \in {KwArticle, KwSection, KwClause, KwParagraph} :
              Contains(text_lower, w)
       THEN IF \E w \in {KwArticle, KwSection, KwClause} : StartsWith(text_lower, w)
            THEN "heading"
            ELSE "clause"
       ELSE IF Contains(text_lower, KwDefinitions)
               \/ StartsWith(text_lower, KwForPurposesOf)
            THEN "definition"
            ELSE IF \E e \in Enumerators : StartsWith(text_lower, e)
                 THEN "list_item"
                 ELSE "paragraph"

\* paragraph: [text, heading_style, bold] as python-docx presents it
_identify_chunk_type_docx(paragraph) ==
    IF paragraph.heading_style THEN "heading"
    ELSE IF paragraph.bold THEN "heading"
    ELSE _identify_chunk_type(paragraph.text)

CharEndWithNewline(char_offset, text) == char_offset + Len(text) + 1

\* DocumentPosition.char_end of a chunk that starts at char_offset
CharEnd(char_offset, text) == char_offset + Len(text)

\* DocumentChunk with its DocumentPosition
DocumentChunk(text, page_number, paragraph_index, char_offset, chunk_type) ==
    [text |-> text,
     page_number |-> page_number,
     paragraph_index |-> paragraph_index,
     char_start |-> char_offset,
     char_end |-> CharEnd(char_offset, text),
     chunk_type |-> chunk_type]

ProcessedDocument(file_type, content, chunks) ==
    [kind |-> "document", file_type |-> file_type, content |-> content,
     chunks |-> chunks]

\* A ValueError raised by the processor
Raised == [kind |-> "raised"]

\* ---- plain text
\* A byte that is not valid UTF-8 on its own; latin-1 decodes it to one character
BadByte == "0xE9"

Utf8Valid(bytes) == \A i \in 1..Len(bytes) : bytes[i] # BadByte

\* bytes.decode('utf-8') of valid input: ASCII bytes decode to themselves
DecodeUtf8(bytes) == [i \in 1..Len(bytes) |-> bytes[i]]

TxtNextOffsetNoNewline(char_offset, paragraph) == char_offset + Len(paragraph)

\* the running offset of _process_txt after a chunk
TxtNextOffset(char_offset, paragraph) == char_offset + Len(paragraph) + 1

RECURSIVE TxtChunks(_, _, _, _)
TxtChunks(paragraphs, i, char_offset, chunks) ==
    IF i > Len(paragraphs) THEN chunks
    ELSE LET paragraph == paragraphs[i]
         IN IF Strip(paragraph) # <<>>
            THEN TxtChunks(paragraphs, i + 1, TxtNextOffset(char_offset, paragraph),
                           Append(chunks,
                                  DocumentChunk(paragraph, 1, i - 1, char_offset,
                                                _identify_chunk_type(paragraph))))
            ELSE TxtChunks(paragraphs, i + 1, char_offset, chunks)

\* What _process_txt stores as ProcessedDocument.content
TxtContent(content, chunks) == content

\* The encodings the except branch tries, in order
FallbackEncodings == <<"latin-1", "cp1252", "iso-8859-1">>

\* The character latin-1, cp1252 and iso-8859-1 decode BadByte to
DecodedBadByte == "U+00E9"

\* bytes.decode(encoding) for a fallback encoding: each of them maps every
\* byte of TxtBytes to one character
FallbackDecode(bytes, encoding) ==
    [i \in 1..Len(bytes) |-> IF bytes[i] = BadByte THEN DecodedBadByte ELSE bytes[i]]

\* Whether bytes.decode(encoding) succeeds; latin-1 has a character for
\* every byte
FallbackDecodes(bytes, encoding) == encoding \in {"latin-1", "cp1252", "iso-8859-1"}

\* None: the except branch assigns the decoded content, leaves the loop and
\* falls off the end of the function
PyNone == [kind |-> "none"]

\* The except UnicodeDecodeError branch of _process_txt
DecodeWithFallback(file_content) ==
    IF \E k \in 1..Len(FallbackEncodings) :
           FallbackDecodes(file_content, FallbackEncodings[k])
    THEN PyNone
    ELSE Raised

\* A chunker that kept its running offset between calls
ProcessTxtFromLatestOffset(file_content) ==
    IF Utf8Valid(file_content)
    THEN LET content == DecodeUtf8(file_content)
             start == IF latest_call.fn = "process_document"
                         /\ latest_call.result.kind = "document"
                      THEN Len(latest_call.result.content)
                      ELSE 0
             chunks == TxtChunks(_split_into_paragraphs(content), 1, start, <<>>)
         IN ProcessedDocument("txt", TxtContent(content, chunks), chunks)
    ELSE DecodeWithFallback(file_content)

_process_txt(file_content) ==
    IF Utf8Valid(file_content)
    THEN LET content == DecodeUtf8(file_content)
             chunks == TxtChunks(_split_into_paragraphs(content), 1, 0, <<>>)
         IN ProcessedDocument("txt", TxtContent(content, chunks), chunks)
    ELSE DecodeWithFallback(file_content)

\* ---- PDF: pages is the sequence of page.extract_text() results, ocr the
\* sequence of texts the OCR fallback yields for the same pages
RECURSIVE PdfParagraphs(_, _, _, _, _)
PdfParagraphs(paragraphs, i, page_num, full_text, chunks) ==
    IF i > Len(paragraphs) THEN [full_text |-> full_text, chunks |-> chunks]
    ELSE LET paragraph == paragraphs[i]
         IN IF Strip(paragraph) # <<>>
            THEN PdfParagraphs(paragraphs, i + 1, page_num,
                               full_text \o paragraph \o <<NL>>,
                               Append(chunks,
                                      DocumentChunk(paragraph, page_num + 1, i - 1,
                                                    Len(full_text),
                                                    _identify_chunk_type(paragraph))))
            ELSE PdfParagraphs(paragraphs, i + 1, page_num, full_text, chunks)

RECURSIVE PdfPages(_, _, _, _, _)
PdfPages(pages, ocr, p, full_text, chunks) ==
    IF p > Len(pages) THEN [full_text |-> full_text, chunks |-> chunks]
    ELSE LET page_text == IF Strip(pages[p]) = <<>> THEN ocr[p] ELSE pages[p]
             r == PdfParagraphs(_split_into_paragraphs(page_text), 1, p - 1,
                                full_text, chunks)
         IN PdfPages(pages, ocr, p + 1, r.full_text, r.chunks)

_process_pdf(pages, ocr) ==
    LET r == PdfPages(pages, ocr, 1, <<>>, <<>>)
    IN ProcessedDocument("pdf", r.full_text, r.chunks)

\* ---- DOCX: paragraphs is doc.paragraphs
RECURSIVE DocxParagraphs(_, _, _, _)
DocxParagraphs(paragraphs, i, full_text, chunks) ==
    IF i > Len(paragraphs) THEN [full_text |-> full_text, chunks |-> chunks]
    ELSE LET paragraph == paragraphs[i]
         IN IF Strip(paragraph.text) # <<>>
            THEN DocxParagraphs(paragraphs, i + 1,
                                full_text \o paragraph.text \o <<NL>>,
                                Append(chunks,
                                       DocumentChunk(paragraph.text, 1, i - 1,
                                                     Len(full_text),
                                                     _identify_chunk_type_docx(paragraph))))
            ELSE DocxParagraphs(paragraphs, i + 1, full_text, chunks)

_process_docx(paragraphs) ==
    LET r == DocxParagraphs(paragraphs, 1, <<>>, <<>>)
    IN ProcessedDocument("docx", r.full_text, r.chunks)

SupportedTypes == {"pdf", "docx", "txt"}

\* A processor that returns an empty document for a file type it does not know
ProcessUnknownAsEmpty(f) ==
    CASE f.file_type = "pdf" -> _process_pdf(f.pages, f.ocr)
      [] f.file_type = "docx" -> _process_docx(f.paragraphs)
      [] f.file_type = "txt" -> _process_txt(f.bytes)
      [] OTHER -> ProcessedDocument(f.file_type, <<>>, <<>>)

\* f: [file_type, bytes] for txt, [file_type, pages, ocr] for pdf,
\* [file_type, paragraphs] for docx, [file_type] otherwise
process_document(f) ==
    CASE f.file_type = "pdf" -> _process_pdf(f.pages, f.ocr)
      [] f.file_type = "docx" -> _process_docx(f.paragraphs)
      [] f.file_type = "txt" -> _process_txt(f.bytes)
      [] OTHER -> Raised

IsDocument(d) == d.kind = "document"

\* ---- the files the chunker is run on; one process_document call per behaviour
MaxTxtLen == 5

TxtBytes == {"a", ".", " ", NL, BadByte}

\* "Para one.\n\nPara two."
ScenarioText ==
    <<"P", "a", "r", "a", " ", "o", "n", "e", ".", NL, NL,
      "P", "a", "r", "a", " ", "t", "w", "o", ".">>

\* Length of the runs of letters that make paragraphs longer than LongParagraph
LongRun == 600

Run(n) == [i \in 1..n |-> "a"]

LongTexts ==
    { Run(LongRun) \o SentenceSep \o Run(LongRun),
      Run(LongRun) \o Run(LongRun),
      Run(LongRun) \o SentenceSep \o Run(LongRun) \o ParagraphSep \o <<"a">> }

\* ---- paragraphs that exercise every rule of _identify_chunk_type
\* "Article 5: Termination"
TextArticleFive ==
    <<"A", "r", "t", "i", "c", "l", "e", " ", "5", ":", " ", "T", "e", "r",
      "m", "i", "n", "a", "t", "i", "o", "n">>

\* "This agreement shall terminate upon notice."
TextShallTerminate ==
    <<"T", "h", "i", "s", " ", "a", "g", "r", "e", "e", "m", "e", "n", "t",
      " ", "s", "h", "a", "l", "l", " ", "t", "e", "r", "m", "i", "n", "a",
      "t", "e", " ", "u", "p", "o", "n", " ", "n", "o", "t", "i", "c", "e",
      ".">>

\* "See Article 5: Termination"
TextSeeArticleFive ==
    <<"S", "e", "e", " ", "A", "r", "t", "i", "c", "l", "e", " ", "5", ":",
      " ", "T", "e", "r", "m", "i", "n", "a", "t", "i", "o", "n">>

\* "Paragraph 3 applies"
TextParagraphThree ==
    <<"P", "a", "r", "a", "g", "r", "a", "p", "h", " ", "3", " ", "a", "p",
      "p", "l", "i", "e", "s">>

\* "Definitions of this clause"
TextDefinitionsClause ==
    <<"D", "e", "f", "i", "n", "i", "t", "i", "o", "n", "s", " ", "o", "f",
      " ", "t", "h", "i", "s", " ", "c", "l", "a", "u", "s", "e">>

\* "Definitions"
TextDefinitions ==
    <<"D", "e", "f", "i", "n", "i", "t", "i", "o", "n", "s">>

\* "For purposes of this deed"
TextForPurposesOf ==
    <<"F", "o", "r", " ", "p", "u", "r", "p", "o", "s", "e", "s", " ", "o",
      "f", " ", "t", "h", "i", "s", " ", "d", "e", "e", "d">>

\* "(a) the fee"
TextEnumerated ==
    <<"(", "a", ")", " ", "t", "h", "e", " ", "f", "e", "e">>

\* "(1) see section 2"
TextEnumeratedSection ==
    <<"(", "1", ")", " ", "s", "e", "e", " ", "s", "e", "c", "t", "i", "o",
      "n", " ", "2">>

\* "(c) the fee"
TextThirdItem ==
    <<"(", "c", ")", " ", "t", "h", "e", " ", "f", "e", "e">>

TypeTexts ==
    { TextArticleFive,
      TextShallTerminate,
      TextSeeArticleFive,
      TextParagraphThree,
      TextDefinitionsClause,
      TextDefinitions,
      TextForPurposesOf,
      TextEnumerated,
      TextEnumeratedSection,
      TextThirdItem }

TxtFiles ==
    {[file_type |-> "txt", bytes |-> b] :
        b \in SeqsUpTo(TxtBytes, MaxTxtLen) \cup {ScenarioText} \cup LongTexts
                \cup TypeTexts}

MaxPages == 2

PageTexts ==
    { <<>>, <<" ">>, <<"a">>, <<" ", "a">>,
      <<"a", NL, NL, "a", ".">>,
      <<"a", NL, NL, " ", NL, NL, "b">> }

OcrTexts == { <<>>, <<"a", NL, NL, "a">> }

\* the OCR fallback is consulted for blank pages only
PdfFiles ==
    {[file_type |-> "pdf", pages |-> pg, ocr |-> oc] :
        pg \in SeqsUpTo(PageTexts, MaxPages) \cup {<<Run(LongRun) \o Run(LongRun)>>},
        oc \in SeqsUpTo(OcrTexts, MaxPages)}

PdfFile(f) ==
    /\ f \in PdfFiles
    /\ Len(f.ocr) = Len(f.pages)
    /\ \A p \in 1..Len(f.pages) : Strip(f.pages[p]) # <<>> => f.ocr[p] = <<>>

MaxDocxParagraphs == 2

DocxTexts == { <<>>, <<" ">>, <<"a">>, <<" ", "a", NL, "a", ".", " ">> }

DocxFiles ==
    {[file_type |-> "docx", paragraphs |-> ps] :
        ps \in SeqsUpTo([text : DocxTexts, heading_style : BOOLEAN, bold : BOOLEAN],
                        MaxDocxParagraphs)}

OtherFiles == {[file_type |-> "rtf"]}

NoFile == [file_type |-> "unset"]

NoDoc == [kind |-> "unset"]

ChunkerInit ==
    /\ file = NoFile
    /\ processed_doc = NoDoc

ProcessTxt ==
    /\ processed_doc = NoDoc
    /\ \E f \in TxtFiles :
           /\ file' = f
           /\ processed_doc' = process_document(f)

ProcessPdf ==
    /\ processed_doc = NoDoc
    /\ \E f \in PdfFiles :
           /\ PdfFile(f)
           /\ file' = f
           /\ processed_doc' = process_document(f)

ProcessDocx ==
    /\ processed_doc = NoDoc
    /\ \E f \in DocxFiles :
           /\ file' = f
           /\ processed_doc' = process_document(f)

ProcessOther ==
    /\ processed_doc = NoDoc
    /\ \E f \in OtherFiles :
           /\ file' = f
           /\ processed_doc' = process_document(f)

ChunkerNext ==
    /\ ProcessTxt \/ ProcessPdf \/ ProcessDocx \/ ProcessOther
    /\ UNCHANGED notChunkerVars

Chunks == IF IsDocument(processed_doc) THEN processed_doc.chunks ELSE <<>>

\* C6: for every chunk the chunker produces, from a txt, pdf or docx file,
\* char_end - char_start equals the length of the chunk's text.
C6_LengthMatchesOffsets ==
    \A i \in 1..Len(Chunks) :
        Chunks[i].char_end - Chunks[i].char_start = Len(Chunks[i].text)

C6_Witness ==
    /\ IsDocument(processed_doc)
    /\ processed_doc.file_type = "txt"
    /\ Len(Chunks) >= 2
    /\ Chunks[2].char_start > 0

\* C7: for every processed document and every chunk of it, the stored full
\* text sliced from char_start to char_end is the chunk's text.
C7_SliceIsChunkText ==
    IsDocument(processed_doc) =>
        \A i \in 1..Len(Chunks) :
            /\ Chunks[i].char_end <= Len(processed_doc.content)
            /\ SubSeq(processed_doc.content, Chunks[i].char_start + 1,
                      Chunks[i].char_end) = Chunks[i].text

\* C8: the first chunk starts at offset 0 and every later chunk starts one
\* past the end of the chunk before it; the two 9-character paragraphs of
\* "Para one.\n\nPara two." give exactly the chunks 0..9 and 10..19.
C8_OffsetsChain ==
    /\ Len(Chunks) >= 1 => Chunks[1].char_start = 0
    /\ \A i \in 2..Len(Chunks) : Chunks[i].char_start = Chunks[i - 1].char_end + 1
    /\ (file.file_type = "txt" /\ file.bytes = ScenarioText) =>
           /\ Len(Chunks) = 2
           /\ Chunks[1].char_start = 0 /\ Chunks[1].char_end = 9
           /\ Chunks[2].char_start = 10 /\ Chunks[2].char_end = 19

C8_Witness ==
    /\ file.file_type = "txt"
    /\ file.bytes = ScenarioText
    /\ Len(Chunks) = 2

\* ---- a txt file that is not valid UTF-8
\* C14: when a txt file is not valid UTF-8 the chunker decodes it with the
\* first of latin-1, cp1252, iso-8859-1 that succeeds, fails only if all of
\* them fail, and on success returns the processed document chunked from
\* the decoded text.
C14_FallbackDecodingChunksTheFile ==
    (file.file_type = "txt" /\ ~Utf8Valid(file.bytes)) =>
        IF \E k \in 1..Len(FallbackEncodings) :
               FallbackDecodes(file.bytes, FallbackEncodings[k])
        THEN /\ IsDocument(processed_doc)
             /\ processed_doc.chunks =
                    TxtChunks(_split_into_paragraphs(
                                  FallbackDecode(file.bytes, FallbackEncodings[1])),
                              1, 0, <<>>)
        ELSE processed_doc = Raised

\* ---- the chunk type of a paragraph
\* The chunks typed by the text rules alone: every chunk of a txt or pdf
\* file, and the docx paragraphs with neither a heading style nor bold runs
TypedByText(i) ==
    \/ file.file_type \in {"txt", "pdf"}
    \/ /\ file.file_type = "docx"
       /\ ~file.paragraphs[Chunks[i].paragraph_index + 1].heading_style
       /\ ~file.paragraphs[Chunks[i].paragraph_index + 1].bold

HasKeyword(t) ==
    \E w \in {KwArticle, KwSection, KwClause, KwParagraph} : Contains(t, w)

StartsWithOneOf(t, starters) == \E w \in starters : StartsWith(t, w)

\* The ordered rules, first match wins, on the lower-cased stripped text t;
\* starters are the keywords that make a heading when t starts with one
RuleType(t, starters) ==
    CASE HasKeyword(t) /\ StartsWithOneOf(t, starters) -> "heading"
      [] HasKeyword(t) /\ ~StartsWithOneOf(t, starters) -> "clause"
      [] ~HasKeyword(t)
         /\ (Contains(t, KwDefinitions) \/ StartsWith(t, KwForPurposesOf)) ->
             "definition"
      [] ~HasKeyword(t)
         /\ ~(Contains(t, KwDefinitions) \/ StartsWith(t, KwForPurposesOf))
         /\ StartsWithOneOf(t, Enumerators) -> "list_item"
      [] OTHER -> "paragraph"

TypeIs(i, starters) ==
    Chunks[i].chunk_type = RuleType(Strip(Lower(Chunks[i].text)), starters)

TypeOfText(i, text, chunk_type) ==
    Chunks[i].text = text => Chunks[i].chunk_type = chunk_type

\* The statement as made: a text holding one of article, section, clause,
\* paragraph is heading if it starts with one of these four and clause
\* otherwise; else definition, else list_item, else paragraph; the chunk
\* "Article 5: Termination" is heading and a chunk with "shall terminate"
\* in mid-paragraph is clause.
C12_FourHeadingStarters ==
    \A i \in 1..Len(Chunks) :
        TypedByText(i) =>
            /\ TypeIs(i, {KwArticle, KwSection, KwClause, KwParagraph})
            /\ TypeOfText(i, TextArticleFive, "heading")
            /\ TypeOfText(i, TextShallTerminate, "clause")

\* C12: the chunk type is decided by the ordered rules, first match wins: a
\* text holding one of article, section, clause, paragraph is heading if it
\* starts with article, section or clause (not with paragraph) and clause
\* otherwise; else definition if it holds "definitions" or starts with "for
\* purposes of"; else list_item if it starts with an enumerator; else
\* paragraph.  The chunk "Article 5: Termination" is heading; a chunk with
\* "shall terminate" in mid-paragraph and none of the four keywords is
\* paragraph, neither clause nor heading.
C12_OrderedTypeRules ==
    \A i \in 1..Len(Chunks) :
        TypedByText(i) =>
            /\ TypeIs(i, {KwArticle, KwSection, KwClause})
            /\ TypeOfText(i, TextArticleFive, "heading")
            /\ TypeOfText(i, TextShallTerminate, "paragraph")
            /\ TypeOfText(i, TextParagraphThree, "clause")

C12_Witness ==
    /\ file.file_type = "txt"
    /\ file.bytes = TextShallTerminate
    /\ Len(Chunks) = 1
    /\ Chunks[1].chunk_type = "paragraph"

(***************************************************************************)
(* Ingestion: endpoints/documents.py and document_storage.py               *)
(***************************************************************************)
\* Background runs of one document: the upload's and the reprocess requests'
MaxRuns == 2

EnumerateFromOne(i) == i

\* enumerate(chunks): the index of the i-th chunk of the list
EnumerateIndex(i) == i - 1

\* the chunk_data list of _store_document_chunks; run tells the rows of one
\* background task from those of another
ChunkData(chunks, run) ==
    [i \in 1..Len(chunks) |->
        [chunk_index |-> EnumerateIndex(i),
         content |-> chunks[i].text,
         chunk_type |-> chunks[i].chunk_type,
         page_number |-> chunks[i].page_number,
         paragraph_index |-> chunks[i].paragraph_index,
         char_start |-> chunks[i].char_start,
         char_end |-> chunks[i].char_end,
         run |-> run]]

\* the files a client uploads: upload_document admits pdf, docx and txt only
UploadFiles ==
    { [file_type |-> "txt", bytes |-> <<"a", NL, NL, "a", ".", NL, NL, "b">>],
      [file_type |-> "txt", bytes |-> <<"a">>],
      [file_type |-> "txt", bytes |-> <<" ">>],
      [file_type |-> "txt", bytes |-> <<"a", BadByte>>],
      [file_type |-> "pdf", pages |-> << <<"a", NL, NL, "a">>, <<"b">> >>,
       ocr |-> << <<>>, <<>> >>],
      [file_type |-> "docx",
       paragraphs |-> << [text |-> <<"a">>, heading_style |-> TRUE, bold |-> FALSE],
                         [text |-> <<"b">>, heading_style |-> FALSE, bold |-> FALSE] >>] }

NoRecord == [status |-> "absent"]

IngestInit ==
    /\ document = NoRecord
    /\ document_chunks = <<>>
    /\ background_tasks = <<>>

\* update_failed: the store did not carry out an update of the document row
\* that this task issued; alone: no other task of the document was still
\* running when this one was added
Task(f) ==
    [pc |-> "start", file |-> f, processed_doc |-> NoDoc, update_failed |-> FALSE,
     alone |-> TRUE]

NoRunInProgress ==
    \A t \in 1..Len(background_tasks) : background_tasks[t].pc = "done"

\* upload_document: the file is stored, the document row is inserted with
\* status uploaded and the background task is added
UploadDocument ==
    /\ document = NoRecord
    /\ \E f \in UploadFiles :
           /\ document' = [status |-> "uploaded", file |-> f, content |-> <<>>,
                           total_chunks |-> 0]
           /\ background_tasks' = Append(background_tasks, Task(f))
    /\ UNCHANGED document_chunks

\* process_document_background for a document row of another file type; the
\* row was not made by upload_document, which admits pdf, docx and txt only
ProcessOtherDocument ==
    /\ document = NoRecord
    /\ \E f \in OtherFiles :
           /\ document' = [status |-> "uploaded", file |-> f, content |-> <<>>,
                           total_chunks |-> 0]
           /\ background_tasks' = Append(background_tasks, Task(f))
    /\ UNCHANGED document_chunks

\* reprocess_document: the document's chunk rows are deleted and a new
\* background task is added; a failing delete ends the request with a 500
ReprocessDocument ==
    /\ document # NoRecord
    /\ Len(background_tasks) < MaxRuns
    /\ \E deleted \in BOOLEAN :
           IF deleted
           THEN /\ document_chunks' = <<>>
                /\ background_tasks' =
                       Append(background_tasks,
                              [Task(document.file) EXCEPT !.alone = NoRunInProgress])
           ELSE UNCHANGED <<document_chunks, background_tasks>>
    /\ UNCHANGED document

SetPc(t, pc) == [background_tasks EXCEPT ![t].pc = pc]

\* The task goes on to pc after an update that the store carried out or not
AfterUpdate(t, pc, ok) ==
    [background_tasks EXCEPT ![t].pc = pc,
                             ![t].update_failed = @ \/ ~ok]

\* A run that goes on to process_document without the update to processing
BgSkipProcessing(t) ==
    /\ background_tasks[t].pc = "start"
    /\ background_tasks' = SetPc(t, "process")
    /\ UNCHANGED <<document, document_chunks>>

\* update_document_status(document_id, "processing"); a failed update is
\* swallowed by update_document_status
BgSetProcessing(t) ==
    /\ background_tasks[t].pc = "start"
    /\ \E ok \in BOOLEAN :
           /\ document' = IF ok THEN [document EXCEPT !.status = "processing"]
                          ELSE document
           /\ background_tasks' = AfterUpdate(t, "process", ok)
    /\ UNCHANGED document_chunks

\* document_processor.process_document; an exception goes to the handler
BgProcess(t) ==
    /\ background_tasks[t].pc = "process"
    /\ LET r == process_document(background_tasks[t].file)
       IN background_tasks' =
              IF r = Raised THEN SetPc(t, "set_error")
              ELSE [background_tasks EXCEPT ![t].pc = "store_document",
                                            ![t].processed_doc = r]
    /\ UNCHANGED <<document, document_chunks>>

\* store_processed_document up to the update of the document row.  Reading
\* the attributes of None raises, an update that raises or returns no data
\* fails: each of them makes the call return False
BgStoreDocument(t) ==
    /\ background_tasks[t].pc = "store_document"
    /\ LET d == background_tasks[t].processed_doc
       IN IF ~IsDocument(d)
          THEN /\ background_tasks' = SetPc(t, "set_error")
               /\ UNCHANGED document
          ELSE \E ok \in BOOLEAN :
                   IF ok
                   THEN /\ document' = [document EXCEPT !.status = "processed",
                                                        !.content = d.content,
                                                        !.total_chunks = Len(d.chunks)]
                        /\ background_tasks' = SetPc(t, "store_chunks")
                   ELSE /\ background_tasks' = AfterUpdate(t, "set_error", ok)
                        /\ UNCHANGED document
    /\ UNCHANGED document_chunks

\* _store_document_chunks: one batch insert of chunk_data; its result is not
\* looked at by store_processed_document, which returns True
BgStoreChunks(t) ==
    /\ background_tasks[t].pc = "store_chunks"
    /\ LET chunk_data == ChunkData(background_tasks[t].processed_doc.chunks, t)
       IN \E inserted \in BOOLEAN :
              document_chunks' = IF inserted /\ chunk_data # <<>>
                                 THEN document_chunks \o chunk_data
                                 ELSE document_chunks
    /\ background_tasks' = SetPc(t, "done")
    /\ UNCHANGED document

\* update_document_status(document_id, "error", ...)
BgSetError(t) ==
    /\ background_tasks[t].pc = "set_error"
    /\ \E ok \in BOOLEAN :
           /\ document' = IF ok THEN [document EXCEPT !.status = "error"]
                          ELSE document
           /\ background_tasks' = AfterUpdate(t, "done", ok)
    /\ UNCHANGED document_chunks

IngestNext ==
    /\ \/ UploadDocument
       \/ ProcessOtherDocument
       \/ ReprocessDocument
       \/ \E t \in 1..Len(background_tasks) : BgSetProcessing(t)
       \/ \E t \in 1..Len(background_tasks) : BgProcess(t)
       \/ \E t \in 1..Len(background_tasks) : BgStoreDocument(t)
       \/ \E t \in 1..Len(background_tasks) : BgStoreChunks(t)
       \/ \E t \in 1..Len(background_tasks) : BgSetError(t)
    /\ UNCHANGED notIngestVars

RowsOfRun(t) == SelectSeq(document_chunks, LAMBDA row : row.run = t)

\* C9: the chunk records one processing run stores carry chunk_index
\* 0, 1, ..., n-1 in the order in which the chunker produced the chunks.
C9_IndicesContiguous ==
    \A t \in 1..Len(background_tasks) :
        LET rows == RowsOfRun(t)
            chunks == background_tasks[t].processed_doc.chunks
        IN rows # <<>> =>
               /\ Len(rows) = Len(chunks)
               /\ \A i \in 1..Len(rows) :
                      /\ rows[i].chunk_index = i - 1
                      /\ rows[i].content = chunks[i].text
                      /\ rows[i].char_start = chunks[i].char_start

C9_Witness ==
    \E t \in 1..Len(background_tasks) :
        /\ background_tasks[t].pc = "done"
        /\ Len(RowsOfRun(t)) = 3

Unsupported(f) == f.file_type \notin SupportedTypes

AllDone ==
    /\ background_tasks # <<>>
    /\ \A t \in 1..Len(background_tasks) : background_tasks[t].pc = "done"

UpdatesCarriedOut ==
    \A t \in 1..Len(background_tasks) : ~background_tasks[t].update_failed

\* C13: processing a document whose file type is none of pdf, docx, txt
\* fails with an error and yields no chunk list: no run of it holds a
\* processed document, stores a chunk record or stores processed content,
\* the document is never processed, and it ends in status error (the last
\* step of every run is the update to status error; the status is error
\* when every run is done and the store carried the updates out).
C13_UnsupportedTypeEndsInError ==
    (document # NoRecord /\ Unsupported(document.file)) =>
        /\ process_document(document.file) = Raised
        /\ \A t \in 1..Len(background_tasks) :
               /\ background_tasks[t].processed_doc = NoDoc
               /\ background_tasks[t].pc \in {"start", "process", "set_error", "done"}
               /\ RowsOfRun(t) = <<>>
        /\ document_chunks = <<>>
        /\ document.content = <<>> /\ document.total_chunks = 0
        /\ document.status # "processed"
        /\ (AllDone /\ UpdatesCarriedOut) => document.status = "error"

C13_Witness ==
    /\ document # NoRecord /\ Unsupported(document.file)
    /\ Len(background_tasks) = MaxRuns
    /\ AllDone /\ UpdatesCarriedOut
    /\ document.status = "error"

\* A change of status, as the pair of the status before and the status after
StatusChange == <<document.status, document'.status>>

ClaimedChanges ==
    { <<"absent", "uploaded">>, <<"uploaded", "processing">>,
      <<"processing", "processed">>, <<"processing", "error">> }

\* What a reprocess adds: a new run takes a processed or failed document
\* back to processing
ReprocessChanges ==
    { <<"processed", "processing">>, <<"error", "processing">> }

\* No run of the document overlapped another, and the store carried out
\* every status update the runs issued
RunsInTurnAndUpdated ==
    \A t \in 1..Len(background_tasks') :
        background_tasks'[t].alone /\ ~background_tasks'[t].update_failed

C28_ProcessedHasItsChunksStored ==
    (Len(background_tasks) = 1 /\ AllDone /\ document.status = "processed") =>
        Len(RowsOfRun(1)) = Len(background_tasks[1].processed_doc.chunks)

\* C29: under any interleaving of the background runs of a document with
\* reprocess requests for it, once every run has ended the stored chunks are
\* those of one run: no chunk_index occurs twice among them.
C29_NoChunkIndexTwice ==
    AllDone =>
        \A i, j \in 1..Len(document_chunks) :
            i # j => document_chunks[i].chunk_index # document_chunks[j].chunk_index

(***************************************************************************)
(* Feature-vector encoder: embedding_service.py                            *)
(***************************************************************************)
\* settings.EMBEDDING_DIMENSION is 768; the model runs the encoder for every
\* dimension from 1 to MaxDim, which is past the number of features
MaxDim == 45

\* Feature values are kept in thousandths, rounded down
Thousandths(num, den) == (1000 * num) \div den

One == Thousandths(1, 1)

legal_keywords ==
    << <<"a", "g", "r", "e", "e", "m", "e", "n", "t">>,
       <<"c", "o", "n", "t", "r", "a", "c", "t">>,
       <<"c", "l", "a", "u", "s", "e">>,
       <<"o", "b", "l", "i", "g", "a", "t", "i", "o", "n">>,
       <<"l", "i", "a", "b", "i", "l", "i", "t", "y">>,
       <<"t", "e", "r", "m", "s">>,
       <<"c", "o", "n", "d", "i", "t", "i", "o", "n", "s">>,
       <<"w", "a", "r", "r", "a", "n", "t", "y">>,
       <<"i", "n", "d", "e", "m", "n", "i", "f", "i", "c", "a", "t", "i", "o", "n">>,
       <<"b", "r", "e", "a", "c", "h">>,
       <<"t", "e", "r", "m", "i", "n", "a", "t", "i", "o", "n">>,
       <<"c", "o", "n", "f", "i", "d", "e", "n", "t", "i", "a", "l", "i", "t", "y">>,
       <<"i", "n", "t", "e", "l", "l", "e", "c", "t", "u", "a", "l", " ", "p", "r", "o", "p", "e", "r", "t", "y">>,
       <<"d", "a", "m", "a", "g", "e", "s">>,
       <<"j", "u", "r", "i", "s", "d", "i", "c", "t", "i", "o", "n">>,
       <<"g", "o", "v", "e", "r", "n", "i", "n", "g", " ", "l", "a", "w">>,
       <<"f", "o", "r", "c", "e", " ", "m", "a", "j", "e", "u", "r", "e">>,
       <<"a", "s", "s", "i", "g", "n", "m", "e", "n", "t">>,
       <<"m", "o", "d", "i", "f", "i", "c", "a", "t", "i", "o", "n">> >>

\* A character str.encode() rejects (a lone surrogate)
Surrogate == "U+D800"

Utf8Encodable(text) == \A i \in 1..Len(text) : text[i] # Surrogate

\* The characters of the short texts the encoder is run on, in table order
EncChars == <<"a", " ", ".", ",">>

CharCode(c) == CHOOSE k \in 1..Len(EncChars) : EncChars[k] = c

RECURSIVE Power(_, _)
Power(b, n) == IF n = 0 THEN 1 ELSE b * Power(b, n - 1)

RECURSIVE TextRank(_)
TextRank(t) ==
    IF t = <<>> THEN 0
    ELSE (CharCode(Head(t)) - 1) * Power(Len(EncChars), Len(t) - 1) + TextRank(Tail(t))

RECURSIVE ShorterTexts(_)
ShorterTexts(n) == IF n = 0 THEN 0 ELSE Power(Len(EncChars), n - 1) + ShorterTexts(n - 1)

\* Position of a text over EncChars among those texts ordered by length and
\* then by character
TextIndex(t) == ShorterTexts(Len(t)) + TextRank(t) + 1

\* hashlib.md5(text.encode()).digest() of the texts over EncChars of length
\* up to 3, in TextIndex order
MD5Digests ==
    << <<212, 29, 140, 217, 143, 0, 178, 4, 233, 128, 9, 152, 236, 248, 66, 126>>,
       <<12, 193, 117, 185, 192, 241, 182, 168, 49, 195, 153, 226, 105, 119, 38, 97>>,
       <<114, 21, 238, 156, 125, 157, 194, 41, 210, 146, 26, 64, 232, 153, 236, 95>>,
       <<80, 88, 241, 175, 131, 136, 99, 63, 96, 156, 173, 183, 90, 117, 220, 157>>,
       <<192, 203, 95, 15, 207, 35, 154, 179, 217, 193, 252, 211, 31, 255, 30, 252>>,
       <<65, 36, 188, 10, 147, 53, 194, 127, 8, 111, 36, 186, 32, 122, 73, 18>>,
       <<153, 2, 12, 178, 75, 209, 50, 56, 217, 7, 198, 92, 194, 181, 124, 3>>,
       <<159, 188, 204, 244, 86, 239, 97, 249, 234, 0, 124, 65, 114, 151, 145, 29>>,
       <<61, 237, 33, 132, 163, 228, 103, 152, 77, 186, 87, 136, 248, 44, 196, 48>>,
       <<149, 41, 136, 218, 151, 251, 216, 242, 234, 101, 153, 12, 3, 234, 196, 37>>,
       <<35, 181, 141, 239, 17, 180, 87, 39, 211, 53, 23, 2, 81, 95, 134, 175>>,
       <<187, 56, 181, 199, 42, 54, 126, 15, 187, 249, 139, 254, 78, 253, 203, 194>>,
       <<168, 211, 113, 116, 154, 130, 27, 12, 169, 82, 186, 35, 111, 69, 213, 218>>,
       <<81, 190, 53, 18, 195, 43, 236, 245, 195, 203, 38, 105, 218, 38, 32, 247>>,
       <<137, 190, 17, 32, 212, 46, 12, 186, 203, 244, 110, 238, 119, 118, 107, 118>>,
       <<88, 185, 231, 11, 101, 167, 119, 0, 186, 102, 233, 198, 77, 107, 159, 137>>,
       <<32, 218, 90, 214, 3, 200, 57, 131, 159, 104, 172, 41, 27, 121, 228, 42>>,
       <<101, 201, 124, 170, 60, 174, 186, 44, 8, 216, 87, 240, 218, 62, 9, 130>>,
       <<252, 118, 60, 179, 30, 153, 56, 243, 119, 55, 57, 70, 129, 34, 143, 131>>,
       <<60, 95, 34, 60, 239, 240, 232, 85, 40, 31, 63, 78, 24, 100, 66, 144>>,
       <<42, 131, 199, 133, 147, 213, 242, 26, 34, 183, 57, 170, 234, 241, 120, 113>>,
       <<71, 188, 229, 199, 79, 88, 159, 72, 103, 219, 213, 126, 156, 169, 248, 8>>,
       <<225, 16, 53, 214, 35, 76, 44, 200, 131, 14, 119, 160, 157, 137, 107, 58>>,
       <<243, 48, 142, 130, 202, 14, 7, 80, 196, 43, 204, 139, 83, 77, 5, 27>>,
       <<90, 83, 90, 6, 234, 203, 240, 35, 225, 221, 15, 223, 86, 228, 79, 10>>,
       <<27, 189, 169, 185, 77, 233, 234, 254, 144, 107, 117, 179, 8, 52, 168, 176>>,
       <<212, 172, 3, 52, 196, 19, 13, 224, 91, 74, 55, 168, 117, 144, 204, 196>>,
       <<53, 76, 91, 77, 145, 66, 51, 194, 156, 254, 206, 119, 147, 59, 237, 106>>,
       <<77, 63, 31, 46, 40, 11, 54, 206, 93, 187, 110, 211, 128, 88, 14, 184>>,
       <<64, 100, 28, 255, 248, 249, 248, 189, 191, 106, 201, 133, 198, 80, 125, 101>>,
       <<37, 10, 153, 114, 195, 214, 51, 141, 92, 201, 168, 2, 24, 219, 229, 201>>,
       <<25, 39, 183, 201, 213, 2, 28, 238, 93, 18, 8, 144, 141, 185, 193, 36>>,
       <<91, 246, 185, 164, 185, 203, 251, 165, 124, 247, 235, 3, 139, 95, 204, 95>>,
       <<33, 98, 166, 208, 144, 224, 43, 181, 148, 33, 224, 237, 67, 248, 157, 193>>,
       <<161, 125, 213, 151, 140, 234, 78, 239, 25, 66, 147, 154, 221, 128, 210, 11>>,
       <<48, 153, 110, 194, 16, 240, 174, 142, 199, 235, 217, 238, 229, 193, 198, 248>>,
       <<58, 8, 174, 176, 209, 240, 57, 157, 118, 218, 146, 246, 235, 73, 44, 185>>,
       <<235, 104, 215, 206, 65, 119, 228, 203, 112, 199, 69, 199, 83, 134, 49, 85>>,
       <<228, 151, 54, 240, 154, 23, 239, 211, 218, 236, 54, 1, 50, 66, 111, 67>>,
       <<187, 153, 213, 166, 176, 159, 175, 214, 51, 162, 117, 157, 122, 188, 246, 53>>,
       <<25, 149, 170, 95, 227, 242, 186, 204, 69, 67, 234, 16, 75, 15, 173, 255>>,
       <<120, 183, 144, 72, 41, 223, 60, 181, 25, 226, 71, 110, 157, 174, 120, 93>>,
       <<98, 134, 49, 240, 115, 33, 178, 45, 140, 23, 108, 32, 12, 133, 94, 27>>,
       <<234, 96, 193, 24, 10, 109, 21, 69, 23, 249, 252, 139, 98, 139, 172, 139>>,
       <<176, 116, 85, 30, 9, 36, 168, 250, 123, 234, 154, 6, 184, 78, 181, 231>>,
       <<249, 133, 210, 232, 199, 116, 233, 15, 162, 109, 152, 74, 82, 88, 57, 91>>,
       <<116, 36, 169, 110, 108, 209, 115, 109, 79, 244, 252, 127, 156, 56, 122, 192>>,
       <<40, 157, 55, 224, 118, 96, 204, 26, 23, 29, 36, 13, 37, 30, 137, 42>>,
       <<245, 60, 32, 32, 211, 82, 80, 17, 183, 133, 26, 239, 53, 80, 87, 166>>,
       <<67, 253, 83, 192, 242, 41, 41, 138, 174, 43, 252, 41, 130, 111, 161, 204>>,
       <<98, 46, 185, 69, 245, 193, 235, 153, 108, 102, 177, 100, 29, 107, 159, 16>>,
       <<224, 217, 26, 185, 176, 98, 91, 188, 11, 167, 3, 161, 17, 110, 165, 148>>,
       <<12, 254, 190, 111, 147, 252, 5, 218, 60, 228, 8, 200, 242, 17, 180, 185>>,
       <<141, 143, 208, 219, 206, 236, 253, 158, 192, 165, 255, 70, 19, 110, 134, 72>>,
       <<109, 203, 193, 174, 25, 214, 74, 206, 72, 37, 112, 22, 24, 235, 77, 128>>,
       <<159, 117, 141, 108, 124, 219, 221, 47, 46, 43, 183, 72, 40, 154, 36, 235>>,
       <<198, 62, 26, 177, 92, 136, 9, 38, 32, 129, 134, 15, 157, 107, 207, 38>>,
       <<229, 222, 10, 51, 232, 251, 21, 6, 230, 107, 137, 12, 253, 156, 80, 104>>,
       <<200, 122, 86, 89, 24, 170, 81, 17, 50, 89, 103, 70, 57, 126, 53, 107>>,
       <<114, 253, 142, 139, 163, 85, 128, 197, 10, 222, 237, 113, 36, 11, 41, 15>>,
       <<127, 144, 140, 10, 234, 164, 194, 201, 158, 72, 241, 63, 208, 247, 35, 47>>,
       <<156, 232, 131, 127, 113, 61, 4, 19, 215, 242, 165, 39, 178, 204, 137, 229>>,
       <<53, 46, 38, 144, 7, 173, 25, 16, 66, 40, 216, 138, 135, 83, 16, 187>>,
       <<47, 67, 180, 47, 216, 51, 209, 231, 116, 32, 168, 218, 231, 65, 144, 0>>,
       <<68, 168, 145, 225, 234, 67, 73, 181, 188, 118, 48, 227, 178, 135, 200, 21>>,
       <<149, 212, 169, 93, 201, 139, 148, 164, 250, 56, 176, 70, 146, 166, 37, 225>>,
       <<120, 22, 230, 186, 93, 219, 27, 149, 248, 53, 93, 170, 120, 31, 241, 224>>,
       <<72, 158, 137, 83, 223, 131, 6, 220, 59, 71, 16, 126, 31, 39, 225, 176>>,
       <<127, 149, 122, 202, 21, 201, 138, 233, 56, 196, 221, 142, 138, 250, 50, 138>>,
       <<81, 179, 60, 66, 41, 100, 12, 143, 152, 210, 120, 220, 61, 186, 112, 40>>,
       <<96, 68, 246, 214, 7, 146, 222, 74, 145, 1, 156, 145, 128, 206, 102, 121>>,
       <<193, 109, 206, 138, 40, 220, 4, 47, 149, 6, 124, 182, 254, 108, 119, 8>>,
       <<67, 195, 233, 245, 118, 222, 73, 194, 248, 75, 52, 220, 20, 19, 47, 12>>,
       <<191, 41, 59, 250, 54, 136, 238, 92, 155, 219, 188, 227, 0, 138, 31, 160>>,
       <<165, 118, 131, 167, 33, 117, 168, 146, 96, 88, 24, 121, 76, 66, 33, 93>>,
       <<110, 226, 157, 221, 149, 170, 217, 141, 253, 180, 218, 61, 71, 97, 114, 91>>,
       <<67, 236, 78, 95, 136, 145, 65, 14, 205, 0, 24, 17, 57, 130, 244, 225>>,
       <<14, 144, 111, 64, 103, 74, 33, 44, 145, 181, 209, 156, 47, 44, 116, 183>>,
       <<29, 204, 197, 255, 214, 36, 31, 9, 129, 160, 207, 201, 152, 198, 230, 74>>,
       <<111, 85, 33, 9, 29, 251, 136, 112, 68, 50, 169, 158, 79, 176, 53, 90>>,
       <<189, 185, 8, 251, 17, 182, 120, 151, 219, 205, 136, 193, 175, 226, 222, 110>>,
       <<230, 197, 176, 163, 72, 123, 59, 246, 42, 125, 242, 212, 86, 188, 2, 212>>,
       <<172, 120, 7, 255, 91, 3, 67, 246, 17, 55, 30, 4, 218, 112, 69, 173>>,
       <<43, 254, 136, 21, 70, 32, 87, 208, 85, 193, 129, 177, 196, 218, 206, 128>>,
       <<178, 77, 96, 209, 184, 62, 122, 7, 37, 45, 219, 235, 228, 218, 149, 234>> >>

\* ---- the text a stored chunk is encoded from
\* self.legal_context
legal_context ==
    << NL, " ", " ", " ", " ", " ", " ", " ", " ", "T", "h", "i", "s", " ",
       "c", "o", "n", "t", "e", "n", "t", " ", "i", "s", " ", "f", "r", "o",
       "m", " ", "l", "e", "g", "a", "l", " ", "d", "o", "c", "u", "m", "e",
       "n", "t", "s", " ", "i", "n", "c", "l", "u", "d", "i", "n", "g", " ",
       "c", "o", "n", "t", "r", "a", "c", "t", "s", ",", " ", "a", "g", "r",
       "e", "e", "m", "e", "n", "t", "s", ",", " ", "p", "o", "l", "i", "c",
       "i", "e", "s", ",", " ", "a", "n", "d", " ", "r", "e", "g", "u", "l",
       "a", "t", "i", "o", "n", "s", ".", NL, " ", " ", " ", " ", " ", " ",
       " ", " ", "F", "o", "c", "u", "s", " ", "o", "n", " ", "l", "e", "g",
       "a", "l", " ", "c", "o", "n", "c", "e", "p", "t", "s", ",", " ", "c",
       "l", "a", "u", "s", "e", "s", ",", " ", "o", "b", "l", "i", "g", "a",
       "t", "i", "o", "n", "s", ",", " ", "d", "e", "f", "i", "n", "i", "t",
       "i", "o", "n", "s", ",", " ", "a", "n", "d", " ", "c", "o", "n", "t",
       "r", "a", "c", "t", "u", "a", "l", " ", "r", "e", "l", "a", "t", "i",
       "o", "n", "s", "h", "i", "p", "s", ".", NL, " ", " ", " ", " ", " ",
       " ", " ", " " >>

\* The indentation of the lines of the f-string in _generate_batch_embeddings
FStringIndent == [i \in 1..20 |-> " "]

LabelContentType ==
    << "C", "o", "n", "t", "e", "n", "t", " ", "T", "y", "p", "e", ":", " " >>

LabelContent ==
    << "L", "e", "g", "a", "l", " ", "D", "o", "c", "u", "m", "e", "n", "t",
       " ", "C", "o", "n", "t", "e", "n", "t", ":", " " >>

\* The f-string of _generate_batch_embeddings, stripped
EnhancedText(chunk_type, content) ==
    Strip(<<NL>> \o FStringIndent \o legal_context
          \o <<NL>> \o FStringIndent
          \o <<NL>> \o FStringIndent \o LabelContentType \o chunk_type
          \o <<NL>> \o FStringIndent \o LabelContent \o content
          \o <<NL>> \o FStringIndent)

\* The contents of the stored chunks that are encoded
EmbedContents == { <<"a">>, <<"t", "e", "r", "m", "s">> }

EmbedTypes == { KwClause, KwParagraph }

EnhancedTexts == {EnhancedText(t, c) : t \in EmbedTypes, c \in EmbedContents}

\* hashlib.md5(text.encode()).digest() of the EnhancedTexts
MD5EnhancedDigests ==
    { <<EnhancedText(KwClause, <<"a">>),
        <<160, 245, 180, 80, 83, 37, 29, 100, 5, 195, 72, 69, 24, 121, 186, 39>>>>,
      <<EnhancedText(KwClause, <<"t", "e", "r", "m", "s">>),
        <<124, 106, 119, 150, 249, 234, 193, 175, 82, 175, 26, 25, 159, 6, 210, 44>>>>,
      <<EnhancedText(KwParagraph, <<"a">>),
        <<112, 81, 156, 4, 217, 107, 35, 81, 217, 72, 35, 25, 96, 92, 83, 34>>>>,
      <<EnhancedText(KwParagraph, <<"t", "e", "r", "m", "s">>),
        <<75, 249, 178, 245, 71, 1, 106, 110, 112, 171, 55, 26, 171, 93, 138, 178>>>> }

\* "terms" and "contract; clause"
KeywordTexts ==
    { <<"t", "e", "r", "m", "s">>,
      <<"c", "o", "n", "t", "r", "a", "c", "t", ";", " ", "c", "l", "a", "u", "s", "e">> }

\* hashlib.md5(text.encode()).digest() of the KeywordTexts
MD5KeywordDigests ==
    { <<<<"t", "e", "r", "m", "s">>, <<111, 73, 59, 246, 243, 190, 185, 212, 106, 156, 100, 157, 47, 125, 221, 41>>>>,
      <<<<"c", "o", "n", "t", "r", "a", "c", "t", ";", " ", "c", "l", "a", "u", "s", "e">>, <<217, 16, 4, 134, 26, 113, 24, 41, 36, 200, 29, 13, 247, 71, 153, 68>>>> }

md5(text) ==
    IF text \in KeywordTexts
    THEN (CHOOSE e \in MD5KeywordDigests : e[1] = text)[2]
    ELSE IF text \in EnhancedTexts
    THEN (CHOOSE e \in MD5EnhancedDigests : e[1] = text)[2]
    ELSE MD5Digests[TextIndex(text)]

SumLens(words) == SumSeq([i \in 1..Len(words) |-> Len(words[i])])

\* The features list before padding, in construction order
Features(text) ==
    LET text_lower == Lower(text)
        words == Words(text_lower)
        density(c) == Thousandths(CountChar(text_lower, c), Max(Len(text), 1))
        digest == md5(text)
    IN << Min(Thousandths(Len(text), 1000), One),
          Min(Thousandths(Len(Words(text)), 100), One),
          Min(Thousandths(Len(Split(text, <<".">>)), 20), One) >>
       \o [k \in 1..Len(legal_keywords) |->
              IF Contains(text_lower, legal_keywords[k]) THEN One ELSE 0]
       \o << density(","), density(";"), density("("), density("\"") >>
       \o << IF words # <<>>
             THEN Min(Thousandths(SumLens(words), 10 * Len(words)), One)
             ELSE 0 >>
       \o [i \in 1..Min(32, 2 * Len(digest)) \div 2 |-> Thousandths(digest[i], 255)]

PadOnly(features, dimension) ==
    features \o [i \in 1..(dimension - Len(features)) |-> 0]

\* The padding loop and the slice features[:dimension]
PadOrTruncate(features, dimension) ==
    SubSeq(features \o [i \in 1..(dimension - Len(features)) |-> 0], 1, dimension)

SumSq(features) == SumSeq([i \in 1..Len(features) |-> features[i] * features[i]])

\* A vector whose i-th entry is entries[i] / sqrt(den_sq)
Vector(entries, den_sq) == [entries |-> entries, den_sq |-> den_sq]

\* Division of every entry by the magnitude, when the magnitude is positive
Normalize(features) ==
    IF SumSq(features) > 0
    THEN Vector(features, SumSq(features))
    ELSE Vector(features, One * One)

\* [0.0] * self.embedding_dimension
ZeroVector(dimension) == Vector([i \in 1..dimension |-> 0], One * One)

_generate_text_embedding(text, dimension) ==
    IF Utf8Encodable(text)
    THEN Normalize(PadOrTruncate(Features(text), dimension))
    ELSE ZeroVector(dimension)

\* ---- the texts and dimensions the encoder is run on; one call per behaviour
MaxEncLen == 2

EncTexts ==
    SeqsUpTo({EncChars[k] : k \in 1..Len(EncChars)} \cup {Surrogate}, MaxEncLen)
        \cup KeywordTexts

NoVector == [entries |-> <<>>, den_sq |-> 0]

EncoderInit ==
    /\ embedding_dimension \in 1..MaxDim
    /\ text_in = <<>>
    /\ embedding = NoVector

Encode ==
    /\ embedding = NoVector
    /\ \E text \in EncTexts :
           /\ text_in' = text
           /\ embedding' = _generate_text_embedding(text, embedding_dimension)
    /\ UNCHANGED embedding_dimension

EncoderNext ==
    /\ Encode
    /\ UNCHANGED notEncoderVars

Encoded == embedding # NoVector

\* The squared Euclidean norm of v is SumSq(v.entries) / v.den_sq
UnitNorm(v) == SumSq(v.entries) = v.den_sq

AllZero(v) == \A i \in 1..Len(v.entries) : v.entries[i] = 0

Unit == 10000

Score(num, den) == (Unit * num) \div den

\* A key that a row dictionary does not hold
Missing == 0 - 1

\* A row whose 'id' is falsy
NoId == ""

legal_query_patterns == <<
    \* obligations: must, shall, required to, obligated to, duty to, responsible for
    [category |->
        <<"o", "b", "l", "i", "g", "a", "t", "i", "o", "n", "s">>,
     terms |-> <<
        <<"m", "u", "s", "t">>, <<"s", "h", "a", "l", "l">>,
        <<"r", "e", "q", "u", "i", "r", "e", "d", " ", "t", "o">>,
        <<"o", "b", "l", "i", "g", "a", "t", "e", "d", " ", "t", "o">>,
        <<"d", "u", "t", "y", " ", "t", "o">>,
        <<"r", "e", "s", "p", "o", "n", "s", "i", "b", "l", "e", " ", "f", "o", "r">> >>],
    \* rights: right to, entitled to, may, permission to, authorized to
    [category |->
        <<"r", "i", "g", "h", "t", "s">>,
     terms |-> <<
        <<"r", "i", "g", "h", "t", " ", "t", "o">>,
        <<"e", "n", "t", "i", "t", "l", "e", "d", " ", "t", "o">>,
        <<"m", "a", "y">>,
        <<"p", "e", "r", "m", "i", "s", "s", "i", "o", "n", " ", "t", "o">>,
        <<"a", "u", "t", "h", "o", "r", "i", "z", "e", "d", " ", "t", "o">> >>],
    \* definitions: means, defined as, refers to, definition, includes, excludes
    [category |->
        <<"d", "e", "f", "i", "n", "i", "t", "i", "o", "n", "s">>,
     terms |-> <<
        <<"m", "e", "a", "n", "s">>,
        <<"d", "e", "f", "i", "n", "e", "d", " ", "a", "s">>,
        <<"r", "e", "f", "e", "r", "s", " ", "t", "o">>,
        <<"d", "e", "f", "i", "n", "i", "t", "i", "o", "n">>,
        <<"i", "n", "c", "l", "u", "d", "e", "s">>,
        <<"e", "x", "c", "l", "u", "d", "e", "s">> >>],
    \* termination: terminate, end, expire, dissolution, cancellation, breach
    [category |->
        <<"t", "e", "r", "m", "i", "n", "a", "t", "i", "o", "n">>,
     terms |-> <<
        <<"t", "e", "r", "m", "i", "n", "a", "t", "e">>, <<"e", "n", "d">>,
        <<"e", "x", "p", "i", "r", "e">>,
        <<"d", "i", "s", "s", "o", "l", "u", "t", "i", "o", "n">>,
        <<"c", "a", "n", "c", "e", "l", "l", "a", "t", "i", "o", "n">>,
        <<"b", "r", "e", "a", "c", "h">> >>],
    \* liability: liable, responsible, damages, compensation, indemnification
    [category |->
        <<"l", "i", "a", "b", "i", "l", "i", "t", "y">>,
     terms |-> <<
        <<"l", "i", "a", "b", "l", "e">>,
        <<"r", "e", "s", "p", "o", "n", "s", "i", "b", "l", "e">>,
        <<"d", "a", "m", "a", "g", "e", "s">>,
        <<"c", "o", "m", "p", "e", "n", "s", "a", "t", "i", "o", "n">>,
        <<"i", "n", "d", "e", "m", "n", "i", "f", "i", "c", "a", "t", "i", "o", "n">> >>],
    \* confidentiality: confidential, non-disclosure, proprietary, secret, private
    [category |->
        <<"c", "o", "n", "f", "i", "d", "e", "n", "t", "i", "a", "l", "i", "t", "y">>,
     terms |-> <<
        <<"c", "o", "n", "f", "i", "d", "e", "n", "t", "i", "a", "l">>,
        <<"n", "o", "n", "-", "d", "i", "s", "c", "l", "o", "s", "u", "r", "e">>,
        <<"p", "r", "o", "p", "r", "i", "e", "t", "a", "r", "y">>,
        <<"s", "e", "c", "r", "e", "t">>,
        <<"p", "r", "i", "v", "a", "t", "e">> >>],
    \* payment: payment, fee, compensation, remuneration, salary, invoice
    [category |->
        <<"p", "a", "y", "m", "e", "n", "t">>,
     terms |-> <<
        <<"p", "a", "y", "m", "e", "n", "t">>, <<"f", "e", "e">>,
        <<"c", "o", "m", "p", "e", "n", "s", "a", "t", "i", "o", "n">>,
        <<"r", "e", "m", "u", "n", "e", "r", "a", "t", "i", "o", "n">>,
        <<"s", "a", "l", "a", "r", "y">>,
        <<"i", "n", "v", "o", "i", "c", "e">> >>],
    \* dispute: dispute, disagreement, arbitration, litigation, mediation
    [category |->
        <<"d", "i", "s", "p", "u", "t", "e">>,
     terms |-> <<
        <<"d", "i", "s", "p", "u", "t", "e">>,
        <<"d", "i", "s", "a", "g", "r", "e", "e", "m", "e", "n", "t">>,
        <<"a", "r", "b", "i", "t", "r", "a", "t", "i", "o", "n">>,
        <<"l", "i", "t", "i", "g", "a", "t", "i", "o", "n">>,
        <<"m", "e", "d", "i", "a", "t", "i", "o", "n">> >>],
    \* intellectual_property: copyright, trademark, patent, trade secret, IP
    [category |->
        <<"i", "n", "t", "e", "l", "l", "e", "c", "t", "u", "a", "l", "_", "p", "r", "o", "p", "e", "r", "t", "y">>,
     terms |-> <<
        <<"c", "o", "p", "y", "r", "i", "g", "h", "t">>,
        <<"t", "r", "a", "d", "e", "m", "a", "r", "k">>,
        <<"p", "a", "t", "e", "n", "t">>,
        <<"t", "r", "a", "d", "e", " ", "s", "e", "c", "r", "e", "t">>,
        <<"I", "P">> >>],
    \* force_majeure: force majeure, act of god, unforeseeable, beyond control
    [category |->
        <<"f", "o", "r", "c", "e", "_", "m", "a", "j", "e", "u", "r", "e">>,
     terms |-> <<
        <<"f", "o", "r", "c", "e", " ", "m", "a", "j", "e", "u", "r", "e">>,
        <<"a", "c", "t", " ", "o", "f", " ", "g", "o", "d">>,
        <<"u", "n", "f", "o", "r", "e", "s", "e", "e", "a", "b", "l", "e">>,
        <<"b", "e", "y", "o", "n", "d", " ", "c", "o", "n", "t", "r", "o", "l">> >>],
    \* warranties: warrant, guarantee, represent, assure, promise
    [category |->
        <<"w", "a", "r", "r", "a", "n", "t", "i", "e", "s">>,
     terms |-> <<
        <<"w", "a", "r", "r", "a", "n", "t">>,
        <<"g", "u", "a", "r", "a", "n", "t", "e", "e">>,
        <<"r", "e", "p", "r", "e", "s", "e", "n", "t">>,
        <<"a", "s", "s", "u", "r", "e">>,
        <<"p", "r", "o", "m", "i", "s", "e">> >>],
    \* amendments: amend, modify, change, update, revise, alter
    [category |->
        <<"a", "m", "e", "n", "d", "m", "e", "n", "t", "s">>,
     terms |-> <<
        <<"a", "m", "e", "n", "d">>, <<"m", "o", "d", "i", "f", "y">>,
        <<"c", "h", "a", "n", "g", "e">>, <<"u", "p", "d", "a", "t", "e">>,
        <<"r", "e", "v", "i", "s", "e">>, <<"a", "l", "t", "e", "r">> >>]
    >>

stop_words == {
    <<"t", "h", "e">>, <<"a", "n", "d">>, <<"o", "r">>, <<"b", "u", "t">>,
    <<"i", "n">>, <<"o", "n">>, <<"a", "t">>, <<"t", "o">>,
    <<"f", "o", "r">>, <<"o", "f">>, <<"w", "i", "t", "h">>, <<"b", "y">> }

question_patterns == <<
    [word |-> <<"w", "h", "a", "t">>, type |-> "definition", confidence |-> 80],
    [word |-> <<"h", "o", "w">>, type |-> "procedure", confidence |-> 80],
    [word |-> <<"w", "h", "e", "n">>, type |-> "temporal", confidence |-> 80],
    [word |-> <<"w", "h", "o">>, type |-> "responsibility", confidence |-> 80],
    [word |-> <<"w", "h", "e", "r", "e">>, type |-> "jurisdiction", confidence |-> 80],
    [word |-> <<"w", "h", "y">>, type |-> "rationale", confidence |-> 70]
    >>

ProcedureWords == {
    <<"s", "t", "e", "p">>, <<"p", "r", "o", "c", "e", "s", "s">>,
    <<"p", "r", "o", "c", "e", "d", "u", "r", "e">> }

TemporalWords == {
    <<"d", "a", "t", "e">>, <<"t", "i", "m", "e">>,
    <<"p", "e", "r", "i", "o", "d">>,
    <<"d", "u", "r", "a", "t", "i", "o", "n">> }

\* The distinct elements of a sequence
Range(s) == {s[i] : i \in 1..Len(s)}

RECURSIVE Flatten(_)
Flatten(ss) == IF ss = <<>> THEN <<>> ELSE Head(ss) \o Flatten(Tail(ss))

\* One category entry for every term of every pattern found in the query,
\* in pattern order; a category with two matching terms appears twice
Repeat(x, n) == [i \in 1..n |-> x]

CategoryMatches(pattern, query_lower) ==
    Repeat(pattern.category,
           Len(SelectSeq(pattern.terms, LAMBDA term : Contains(query_lower, term))))

EachCategory(patterns, query_lower) ==
    [c \in 1..Len(patterns) |-> CategoryMatches(patterns[c], query_lower)]

MatchedCategories(query_lower) ==
    Flatten(EachCategory(legal_query_patterns, query_lower))

\* The question pattern the query starts with, or the general intent
QuestionIntent(query_lower) ==
    LET starts == {i \in 1..Len(question_patterns) :
                      StartsWith(query_lower, question_patterns[i].word)}
    IN IF starts = {} THEN [word |-> <<>>, type |-> "general", confidence |-> 50]
       ELSE question_patterns[CHOOSE i \in starts : \A j \in starts : i <= j]

SuggestedFilters(type) ==
    IF type = "definition" THEN <<"definition">>
    ELSE IF type \in {"procedure", "temporal"} THEN <<"clause", "paragraph">>
    ELSE <<>>

Intent(question, legal_concepts) ==
    [type |-> question.type,
     confidence |-> Min(question.confidence + 10 * Len(legal_concepts), 100),
     suggested_filters |-> SuggestedFilters(question.type),
     legal_concepts |-> legal_concepts]

_analyze_query_intent(query) ==
    Intent(QuestionIntent(Lower(query)), MatchedCategories(Lower(query)))

Overlap(content_lower, query_terms) ==
    IF query_terms = {} THEN 0
    ELSE Score(Cardinality({t \in query_terms : Contains(content_lower, t)}),
               Cardinality(query_terms))

_calculate_query_overlap(content, query) ==
    Overlap(Lower(content), Range(Words(Lower(query))) \ stop_words)

_get_chunk_type_bonus(chunk_type) ==
    CASE chunk_type = "clause" -> 9000
      [] chunk_type = "definition" -> 8000
      [] chunk_type = "heading" -> 7000
      [] chunk_type = "paragraph" -> 6000
      [] chunk_type = "list_item" -> 5000
      [] OTHER -> 5000

\* The similarity query selects no document_type column, so the type boost
\* never applies; only the title length does
_calculate_document_relevance(result) ==
    Min(5000 + (IF Len(result.document_title) > 10 THEN 1000 ELSE 0), Unit)

\* Without the clamp to 1.0
EnhancedScoreUnclamped(result, original_query) ==
    (40 * (IF result.similarity_score = Missing THEN 0 ELSE result.similarity_score)
     + 30 * _calculate_query_overlap(result.content, original_query)
     + 15 * _get_chunk_type_bonus(result.chunk_type)
     + 15 * _calculate_document_relevance(result)) \div 100

_calculate_enhanced_score(result, original_query) ==
    Min(EnhancedScoreUnclamped(result, original_query), Unit)

ContainsAny(content, words) == \E w \in words : Contains(content, w)

IntentTypeBoost(content, chunk_type, intent_type) ==
    IF intent_type = "definition" /\ chunk_type = "definition" THEN 2000
    ELSE IF intent_type = "procedure" /\ ContainsAny(content, ProcedureWords) THEN 1500
    ELSE IF intent_type = "temporal" /\ ContainsAny(content, TemporalWords) THEN 1500
    ELSE 0

ConceptBoost(content, legal_concepts) ==
    1000 * Len(SelectSeq(legal_concepts, LAMBDA concept : Contains(content, concept)))

BoostOf(content, chunk_type, query_intent) ==
    Min(IntentTypeBoost(content, chunk_type, query_intent.type)
        + ConceptBoost(content, query_intent.legal_concepts), 3000)

_calculate_intent_boost(result, query_intent) ==
    BoostOf(Lower(result.content), result.chunk_type, query_intent)

(***************************************************************************)
(* Search: merging the vector and the keyword result lists                 *)
(***************************************************************************)
\* list.sort(key=..., reverse=True): descending by key, equal keys keep
\* their order; keys[i] is the key of s[i]
StableSortDesc(s, keys) ==
    LET Rank(i) == 1 + Cardinality({j \in 1..Len(s) :
                        keys[j] > keys[i] \/ (keys[j] = keys[i] /\ j < i)})
    IN [r \in 1..Len(s) |-> s[CHOOSE i \in 1..Len(s) : Rank(i) = r]]

\* s[:n]
Take(s, n) == SubSeq(s, 1, Min(n, Len(s)))

\* Every row of the concatenation, the repeated ids included
KeepAll(all_results, seen_ids) == all_results

\* The first row of every id, in list order (seen_ids)
RECURSIVE UniqueById(_, _)
UniqueById(all_results, seen_ids) ==
    IF all_results = <<>> THEN <<>>
    ELSE IF Head(all_results).id \in seen_ids
         THEN UniqueById(Tail(all_results), seen_ids)
         ELSE <<Head(all_results)>>
              \o UniqueById(Tail(all_results), seen_ids \cup {Head(all_results).id})

MarkVector(vector_results) ==
    [i \in 1..Len(vector_results) |-> [vector_results[i] EXCEPT !.search_type = "vector"]]

\* x.get('similarity_score', 0)
SimilarityOf(result) ==
    IF result.similarity_score = Missing THEN 0 ELSE result.similarity_score

SortBySimilarity(results) ==
    StableSortDesc(results, [i \in 1..Len(results) |-> SimilarityOf(results[i])])

_combine_search_results(vector_results, keyword_results) ==
    SortBySimilarity(UniqueById(MarkVector(vector_results) \o keyword_results, {}))

\* Position of chunk_id in the insertion-ordered dictionary `combined`; 0 if absent
Position(combined, chunk_id) ==
    LET ps == {p \in 1..Len(combined) : combined[p].id = chunk_id}
    IN IF ps = {} THEN 0 ELSE CHOOSE p \in ps : TRUE

\* combined[chunk_id] = result: an existing key keeps its position
SetItemAt(combined, result, p) ==
    IF p = 0 THEN Append(combined, result) ELSE [combined EXCEPT ![p] = result]

SetItem(combined, result) == SetItemAt(combined, result, Position(combined, result.id))

AsVector(result) ==
    [result EXCEPT !.source = "vector",
                   !.combined_score = IF result.enhanced_score = Missing
                                      THEN 5000 ELSE result.enhanced_score]

AddVector(combined, result) ==
    IF result.id # NoId THEN SetItem(combined, AsVector(result)) ELSE combined

RECURSIVE AddVectorResults(_, _)
AddVectorResults(combined, vector_results) ==
    IF vector_results = <<>> THEN combined
    ELSE AddVectorResults(AddVector(combined, Head(vector_results)),
                          Tail(vector_results))

AsKeyword(result) ==
    [result EXCEPT !.source = "keyword",
                   !.combined_score = IF result.keyword_rank = Missing
                                      THEN 3000 ELSE result.keyword_rank]

BoostExisting(combined, p) ==
    [combined EXCEPT ![p].combined_score = combined[p].combined_score + 2000,
                     ![p].source = "hybrid"]

AddKeywordAt(combined, result, p) ==
    IF result.id = NoId THEN combined
    ELSE IF p # 0 THEN BoostExisting(combined, p)
    ELSE SetItem(combined, AsKeyword(result))

AddKeyword(combined, result) ==
    AddKeywordAt(combined, result, Position(combined, result.id))

RECURSIVE AddKeywordResults(_, _)
AddKeywordResults(combined, keyword_results) ==
    IF keyword_results = <<>> THEN combined
    ELSE AddKeywordResults(AddKeyword(combined, Head(keyword_results)),
                           Tail(keyword_results))

ApplyIntentBoost(combined, query_intent) ==
    [p \in 1..Len(combined) |->
        [combined[p] EXCEPT !.combined_score =
            Min(combined[p].combined_score
                + _calculate_intent_boost(combined[p], query_intent), Unit)]]

\* The merged rows left in insertion order
KeepInsertionOrder(combined) == combined

SortByCombinedScore(combined) ==
    StableSortDesc(combined, [p \in 1..Len(combined) |-> combined[p].combined_score])

_combine_and_rerank_results(vector_results, keyword_results, query_intent, limit) ==
    Take(SortByCombinedScore(
             ApplyIntentBoost(
                 AddKeywordResults(AddVectorResults(<<>>, vector_results),
                                   keyword_results),
                 query_intent)),
         limit)

\* "what is a fee"
QueryFee ==
    <<"w", "h", "a", "t", " ", "i", "s", " ", "a", " ", "f", "e", "e">>

\* " What is a FEE "
QueryFeeVariant ==
    <<" ", "W", "h", "a", "t", " ", "i", "s", " ", "a", " ", "F", "E", "E", " ">>

\* "how to end"
QueryEnd ==
    <<"h", "o", "w", " ", "t", "o", " ", "e", "n", "d">>

\* "fee means payment"
ContentFee ==
    <<"f", "e", "e", " ", "m", "e", "a", "n", "s", " ", "p", "a", "y", "m", "e", "n", "t">>

\* "step to end termination"
ContentEnd ==
    <<"s", "t", "e", "p", " ", "t", "o", " ", "e", "n", "d", " ", "t", "e", "r", "m", "i", "n", "a", "t", "i", "o", "n">>

\* "a late fee"
ContentLate ==
    <<"a", " ", "l", "a", "t", "e", " ", "f", "e", "e">>

\* "fee schedule"
TitleSchedule ==
    <<"f", "e", "e", " ", "s", "c", "h", "e", "d", "u", "l", "e">>

\* "nda"
TitleNda ==
    <<"n", "d", "a">>

(***************************************************************************)
(* Search: the rows the store holds                                        *)
(***************************************************************************)
\* A row of document_chunks joined with its document, before any score key
\* is set on it
Row(id, document_id, chunk_type, content, document_title) ==
    [id |-> id, document_id |-> document_id, chunk_type |-> chunk_type,
     content |-> content, document_title |-> document_title,
     similarity_score |-> Missing, search_type |-> "",
     enhanced_score |-> Missing, keyword_rank |-> Missing,
     source |-> "", combined_score |-> Missing]

ChunkIds == {"c1", "c2", "c3"}

StoredChunk(id) ==
    CASE id = "c1" -> Row("c1", "d1", "definition", ContentFee, TitleSchedule)
      [] id = "c2" -> Row("c2", "d1", "clause", ContentEnd, TitleSchedule)
      [] id = "c3" -> Row("c3", "d2", "paragraph", ContentLate, TitleNda)

SearchQueries == {QueryFee, QueryFeeVariant, QueryEnd}

(***************************************************************************)
(* Merge: both merge functions applied to arbitrary result lists           *)
(***************************************************************************)
MaxListLen == 2

MergeIds == {"c1", "c2"}

\* Rows as a vector search returns them: with a similarity score, and with
\* an enhanced score when they come through _enhanced_vector_search
VectorRows ==
    {[StoredChunk(id) EXCEPT !.similarity_score = sc[1], !.enhanced_score = sc[2]] :
        id \in MergeIds, sc \in {<<9000, Missing>>, <<3000, 9000>>}}

\* Rows as _perform_keyword_search returns them
KeywordRows ==
    {[StoredChunk(id) EXCEPT !.similarity_score = 5000, !.search_type = "keyword"] :
        id \in MergeIds}

NotMerged == [ran |-> FALSE, results |-> <<>>]

Merged(results) == [ran |-> TRUE, results |-> results]

MergeInit ==
    /\ merge_in \in [vector_results : SeqsUpTo(VectorRows, MaxListLen),
                     keyword_results : SeqsUpTo(KeywordRows, MaxListLen),
                     query_intent : {_analyze_query_intent(q) : q \in SearchQueries},
                     limit : 1..MaxListLen]
    /\ merge_out = [unique_results |-> NotMerged, final_results |-> NotMerged,
                    returned_results |-> NotMerged]

CombineSearchResults ==
    /\ ~merge_out.unique_results.ran
    /\ merge_out' = [merge_out EXCEPT !.unique_results =
           Merged(_combine_search_results(merge_in.vector_results,
                                          merge_in.keyword_results))]
    /\ UNCHANGED merge_in

CombineAndRerankResults ==
    /\ ~merge_out.final_results.ran
    /\ merge_out' = [merge_out EXCEPT !.final_results =
           Merged(_combine_and_rerank_results(merge_in.vector_results,
                                              merge_in.keyword_results,
                                              merge_in.query_intent,
                                              merge_in.limit))]
    /\ UNCHANGED merge_in

\* The "results" of semantic_search: combined_results[:limit]
ReturnSemanticResults ==
    /\ ~merge_out.returned_results.ran
    /\ merge_out' = [merge_out EXCEPT !.returned_results =
           Merged(Take(_combine_search_results(merge_in.vector_results,
                                               merge_in.keyword_results),
                       merge_in.limit))]
    /\ UNCHANGED merge_in

MergeNext ==
    /\ \/ CombineSearchResults
       \/ CombineAndRerankResults
       \/ ReturnSemanticResults
    /\ UNCHANGED notMergeVars

NoRepeatedId(results) ==
    \A i, j \in 1..Len(results) : i # j => results[i].id # results[j].id

RepeatsAnId(results) == ~NoRepeatedId(results)

SharedIds(merge) ==
    {r.id : r \in Range(merge.vector_results)}
        \cap {r.id : r \in Range(merge.keyword_results)}

\* C1: whatever the vector and keyword lists hold, lists that share ids or
\* repeat an id included, neither merge function returns a list in which two
\* entries have the same chunk id.
C1_NoDuplicateChunkIds ==
    /\ NoRepeatedId(merge_out.unique_results.results)
    /\ NoRepeatedId(merge_out.final_results.results)

\* Both functions have merged a vector list that repeats an id and shares
\* one with the keyword list, and both returned two rows
C1_Witness ==
    /\ merge_out.unique_results.ran
    /\ merge_out.final_results.ran
    /\ RepeatsAnId(merge_in.vector_results)
    /\ SharedIds(merge_in) # {}
    /\ Len(merge_out.unique_results.results) = 2
    /\ Len(merge_out.final_results.results) = 2

\* The rows of `combined` before they are sorted and cut
MergedReranked(merge) ==
    ApplyIntentBoost(
        AddKeywordResults(AddVectorResults(<<>>, merge.vector_results),
                          merge.keyword_results),
        merge.query_intent)

\* The rows of unique_results before they are sorted
MergedUnique(merge) ==
    UniqueById(MarkVector(merge.vector_results) \o merge.keyword_results, {})

CombinedScoreOf(result) == result.combined_score

NonIncreasing(results, ScoreOf(_)) ==
    \A i \in 1..(Len(results) - 1) : ScoreOf(results[i]) >= ScoreOf(results[i + 1])

\* results holds Min(limit, Len(merged)) rows of merged, and no row left out
\* scores higher than a row kept
HighestScored(results, merged, limit, ScoreOf(_)) ==
    /\ Len(results) = Min(limit, Len(merged))
    /\ Range(results) \subseteq Range(merged)
    /\ \A out \in Range(merged) \ Range(results) :
          \A kept \in Range(results) : ScoreOf(kept) >= ScoreOf(out)

ReturnedAsClaimed(results, merged, limit, ScoreOf(_)) ==
    /\ Len(results) <= limit
    /\ NonIncreasing(results, ScoreOf)
    /\ HighestScored(results, merged, limit, ScoreOf)

\* C17: the list a search returns has at most `limit` rows, is in order of
\* non-increasing final score (the combined score for
\* advanced_semantic_search, the similarity score for semantic_search), and
\* holds the highest-scored rows of the merged list without repeated ids.
C17_ResultsAreTheTopOfTheMergedSet ==
    /\ merge_out.final_results.ran
        => ReturnedAsClaimed(merge_out.final_results.results,
                             MergedReranked(merge_in), merge_in.limit,
                             CombinedScoreOf)
    /\ merge_out.returned_results.ran
        => ReturnedAsClaimed(merge_out.returned_results.results,
                             MergedUnique(merge_in), merge_in.limit,
                             SimilarityOf)

\* Both searches returned one row of two merged ones, and each was the row
\* that came second into the merged list
C17_Witness ==
    /\ merge_out.final_results.ran
    /\ merge_out.returned_results.ran
    /\ merge_in.limit = 1
    /\ Len(MergedReranked(merge_in)) = 2
    /\ Len(MergedUnique(merge_in)) = 2
    /\ merge_out.final_results.results = <<MergedReranked(merge_in)[2]>>
    /\ merge_out.returned_results.results = <<MergedUnique(merge_in)[2]>>

(***************************************************************************)
(* Search: the store calls of a search                                     *)
(*                                                                         *)
(* The store is PostgreSQL behind supabase.  What it computes itself (the  *)
(* vector distance, the full-text match) is a property of the stored row;  *)
(* every call to it can fail, and the callers turn a failure into an empty *)
(* list.                                                                   *)
(***************************************************************************)
\* documents.id in table order, and documents.uploaded_by
DocumentIds == <<"d1", "d2">>

UploadedBy(document_id) == IF document_id = "d1" THEN "u1" ELSE "u2"

\* document_chunks.id in table order
ChunkOrder == <<"c1", "c2", "c3">>

\* 1 - (dc.embedding <-> query_vector), as the store reports it
SimilarityScore(id) ==
    CASE id = "c1" -> 8000
      [] id = "c2" -> 6500
      [] id = "c3" -> 9000

\* The stored rows of `ids` that pass the optional filters, in table order;
\* an empty filter list filters nothing
FilteredRows(ids, document_ids, chunk_types) ==
    SelectSeq([i \in 1..Len(ChunkOrder) |-> StoredChunk(ChunkOrder[i])],
        LAMBDA row :
            /\ row.id \in ids
            /\ document_ids # <<>> => row.document_id \in Range(document_ids)
            /\ chunk_types # <<>> => row.chunk_type \in Range(chunk_types))

_get_accessible_documents(user_id, failed) ==
    IF failed THEN <<>>
    ELSE SelectSeq(DocumentIds, LAMBDA d : UploadedBy(d) = user_id)

WithSimilarity(rows) ==
    [i \in 1..Len(rows) |->
        [rows[i] EXCEPT !.similarity_score = SimilarityScore(rows[i].id)]]

AtLeast(scored, similarity_threshold) ==
    SelectSeq(scored, LAMBDA row : row.similarity_score >= similarity_threshold)

\* A vector query whose failure goes unnoticed
FindSimilarChunksUnchecked(ids, document_ids, chunk_types, similarity_threshold, limit, failed) ==
    Take(SortBySimilarity(
             AtLeast(WithSimilarity(FilteredRows(ids, document_ids, chunk_types)),
                     similarity_threshold)),
         limit)

find_similar_chunks(ids, document_ids, chunk_types, similarity_threshold, limit, failed) ==
    IF failed THEN <<>>
    ELSE Take(SortBySimilarity(
                  AtLeast(WithSimilarity(FilteredRows(ids, document_ids, chunk_types)),
                          similarity_threshold)),
              limit)

WithEnhancedScore(results, original_query) ==
    [i \in 1..Len(results) |->
        [results[i] EXCEPT !.enhanced_score =
            _calculate_enhanced_score(results[i], original_query)]]

SortByEnhancedScore(enhanced_results) ==
    StableSortDesc(enhanced_results,
        [i \in 1..Len(enhanced_results) |-> enhanced_results[i].enhanced_score])

_enhanced_vector_search(ids, original_query, document_ids, chunk_types, similarity_threshold, limit, failed) ==
    Take(SortByEnhancedScore(
             WithEnhancedScore(
                 find_similar_chunks(ids, document_ids, chunk_types,
                                     similarity_threshold, limit * 2, failed),
                 original_query)),
         limit)

\* Full-text match of the store: the row holds a word of the query
TextSearch(content, query) ==
    Range(Words(Lower(query))) \cap Range(Words(Lower(content))) # {}

Matching(rows, query) == SelectSeq(rows, LAMBDA row : TextSearch(row.content, query))

\* len(query_words.intersection(content_words)) / len(query_words)
MatchScore(query_words, content_words) ==
    Score(Cardinality(query_words \cap content_words), Cardinality(query_words))

WithMatchScore(data, query_words) ==
    [i \in 1..Len(data) |->
        [data[i] EXCEPT
            !.similarity_score =
                MatchScore(query_words, Range(Words(Lower(data[i].content)))),
            !.search_type = "keyword"]]

\* A division by zero (no query word) ends the search with no result
KeywordResults(data, query_words, failed) ==
    IF failed \/ (data # <<>> /\ query_words = {}) THEN <<>>
    ELSE WithMatchScore(data, query_words)

_perform_keyword_search(ids, query, document_ids, chunk_types, limit, failed) ==
    KeywordResults(
        Take(Matching(FilteredRows(ids, document_ids, chunk_types), query), limit),
        Range(Words(Lower(query))), failed)

(***************************************************************************)
(* Answers: question analysis (enhanced_rag_service.py)                    *)
(***************************************************************************)
\* self.legal_question_patterns, in dictionary order
legal_question_patterns == <<
    \* what is, define, meaning of, definition of
    [type |-> "definition", patterns |-> <<
        <<"w", "h", "a", "t", " ", "i", "s">>,
        <<"d", "e", "f", "i", "n", "e">>,
        <<"m", "e", "a", "n", "i", "n", "g", " ", "o", "f">>,
        <<"d", "e", "f", "i", "n", "i", "t", "i", "o", "n", " ", "o", "f">> >>],
    \* how to, process for, steps to, procedure
    [type |-> "procedure", patterns |-> <<
        <<"h", "o", "w", " ", "t", "o">>,
        <<"p", "r", "o", "c", "e", "s", "s", " ", "f", "o", "r">>,
        <<"s", "t", "e", "p", "s", " ", "t", "o">>,
        <<"p", "r", "o", "c", "e", "d", "u", "r", "e">> >>],
    \* must, required to, obligated to, responsible for
    [type |-> "obligation", patterns |-> <<
        <<"m", "u", "s", "t">>,
        <<"r", "e", "q", "u", "i", "r", "e", "d", " ", "t", "o">>,
        <<"o", "b", "l", "i", "g", "a", "t", "e", "d", " ", "t", "o">>,
        <<"r", "e", "s", "p", "o", "n", "s", "i", "b", "l", "e", " ", "f", "o", "r">> >>],
    \* can, allowed to, entitled to, rights to
    [type |-> "rights", patterns |-> <<
        <<"c", "a", "n">>,
        <<"a", "l", "l", "o", "w", "e", "d", " ", "t", "o">>,
        <<"e", "n", "t", "i", "t", "l", "e", "d", " ", "t", "o">>,
        <<"r", "i", "g", "h", "t", "s", " ", "t", "o">> >>],
    \* what happens if, penalty for, result of, consequence
    [type |-> "consequence", patterns |-> <<
        <<"w", "h", "a", "t", " ", "h", "a", "p", "p", "e", "n", "s", " ", "i", "f">>,
        <<"p", "e", "n", "a", "l", "t", "y", " ", "f", "o", "r">>,
        <<"r", "e", "s", "u", "l", "t", " ", "o", "f">>,
        <<"c", "o", "n", "s", "e", "q", "u", "e", "n", "c", "e">> >>],
    \* when, deadline, period, duration
    [type |-> "timeline", patterns |-> <<
        <<"w", "h", "e", "n">>, <<"d", "e", "a", "d", "l", "i", "n", "e">>,
        <<"p", "e", "r", "i", "o", "d">>,
        <<"d", "u", "r", "a", "t", "i", "o", "n">> >>],
    \* except, unless, excluding, exemption
    [type |-> "exception", patterns |-> <<
        <<"e", "x", "c", "e", "p", "t">>, <<"u", "n", "l", "e", "s", "s">>,
        <<"e", "x", "c", "l", "u", "d", "i", "n", "g">>,
        <<"e", "x", "e", "m", "p", "t", "i", "o", "n">> >>],
    \* difference between, compare, versus, vs
    [type |-> "comparison", patterns |-> <<
        <<"d", "i", "f", "f", "e", "r", "e", "n", "c", "e", " ", "b", "e", "t", "w", "e", "e", "n">>,
        <<"c", "o", "m", "p", "a", "r", "e">>,
        <<"v", "e", "r", "s", "u", "s">>, <<"v", "s">> >>]
    >>

\* sum(1 for pattern in patterns if pattern in question_lower), per type
TypeScores(question_lower) ==
    [i \in 1..Len(legal_question_patterns) |->
        Len(SelectSeq(legal_question_patterns[i].patterns,
                      LAMBDA pattern : Contains(question_lower, pattern)))]

\* max(type_scores, key=type_scores.get): the first type with the highest score
FirstMax(scores) ==
    CHOOSE i \in 1..Len(scores) :
        /\ \A j \in 1..Len(scores) : scores[j] <= scores[i]
        /\ \A j \in 1..(i - 1) : scores[j] < scores[i]

TypeOf(scores) ==
    IF \A i \in 1..Len(scores) : scores[i] = 0 THEN "general"
    ELSE legal_question_patterns[FirstMax(scores)].type

_classify_question_type(question) == TypeOf(TypeScores(Lower(question)))

\* The pattern lists of _extract_legal_entities_from_question, in the order
\* of the keys of `entities`
entity_patterns == <<
    \* parties: party, parties, plaintiff, defendant, client, customer, vendor, contractor
    <<
        <<"p", "a", "r", "t", "y">>, <<"p", "a", "r", "t", "i", "e", "s">>,
        <<"p", "l", "a", "i", "n", "t", "i", "f", "f">>,
        <<"d", "e", "f", "e", "n", "d", "a", "n", "t">>,
        <<"c", "l", "i", "e", "n", "t">>,
        <<"c", "u", "s", "t", "o", "m", "e", "r">>,
        <<"v", "e", "n", "d", "o", "r">>,
        <<"c", "o", "n", "t", "r", "a", "c", "t", "o", "r">> >>,
    \* document_types: contract, agreement, policy, clause, provision, amendment, addendum
    <<
        <<"c", "o", "n", "t", "r", "a", "c", "t">>,
        <<"a", "g", "r", "e", "e", "m", "e", "n", "t">>,
        <<"p", "o", "l", "i", "c", "y">>, <<"c", "l", "a", "u", "s", "e">>,
        <<"p", "r", "o", "v", "i", "s", "i", "o", "n">>,
        <<"a", "m", "e", "n", "d", "m", "e", "n", "t">>,
        <<"a", "d", "d", "e", "n", "d", "u", "m">> >>,
    \* legal_concepts: liability, obligation, rights, termination, breach, confidentiality, intellectual property
    <<
        <<"l", "i", "a", "b", "i", "l", "i", "t", "y">>,
        <<"o", "b", "l", "i", "g", "a", "t", "i", "o", "n">>,
        <<"r", "i", "g", "h", "t", "s">>,
        <<"t", "e", "r", "m", "i", "n", "a", "t", "i", "o", "n">>,
        <<"b", "r", "e", "a", "c", "h">>,
        <<"c", "o", "n", "f", "i", "d", "e", "n", "t", "i", "a", "l", "i", "t", "y">>,
        <<"i", "n", "t", "e", "l", "l", "e", "c", "t", "u", "a", "l", " ", "p", "r", "o", "p", "e", "r", "t", "y">> >>,
    \* actions: terminate, breach, modify, assign, transfer, renew, cancel
    <<
        <<"t", "e", "r", "m", "i", "n", "a", "t", "e">>,
        <<"b", "r", "e", "a", "c", "h">>, <<"m", "o", "d", "i", "f", "y">>,
        <<"a", "s", "s", "i", "g", "n">>,
        <<"t", "r", "a", "n", "s", "f", "e", "r">>,
        <<"r", "e", "n", "e", "w">>, <<"c", "a", "n", "c", "e", "l">> >>,
    \* time_references: deadline, period, term, expiration, renewal, notice period
    <<
        <<"d", "e", "a", "d", "l", "i", "n", "e">>,
        <<"p", "e", "r", "i", "o", "d">>, <<"t", "e", "r", "m">>,
        <<"e", "x", "p", "i", "r", "a", "t", "i", "o", "n">>,
        <<"r", "e", "n", "e", "w", "a", "l">>,
        <<"n", "o", "t", "i", "c", "e", " ", "p", "e", "r", "i", "o", "d">> >>
    >>

_extract_legal_entities_from_question(question) ==
    [k \in 1..Len(entity_patterns) |->
        SelectSeq(entity_patterns[k], LAMBDA p : Contains(Lower(question), p))]

\* The legal context added for a question type
TypeContext(question_type) ==
    CASE question_type = "definition" ->
        \* " definition meaning terminology"
        <<" ", "d", "e", "f", "i", "n", "i", "t", "i", "o", "n", " ", "m", "e", "a", "n", "i", "n", "g", " ", "t", "e", "r", "m", "i", "n", "o", "l", "o", "g", "y">>
      [] question_type = "procedure" ->
        \* " process steps procedure requirements"
        <<" ", "p", "r", "o", "c", "e", "s", "s", " ", "s", "t", "e", "p", "s", " ", "p", "r", "o", "c", "e", "d", "u", "r", "e", " ", "r", "e", "q", "u", "i", "r", "e", "m", "e", "n", "t", "s">>
      [] question_type = "obligation" ->
        \* " obligation duty responsibility requirements"
        <<" ", "o", "b", "l", "i", "g", "a", "t", "i", "o", "n", " ", "d", "u", "t", "y", " ", "r", "e", "s", "p", "o", "n", "s", "i", "b", "i", "l", "i", "t", "y", " ", "r", "e", "q", "u", "i", "r", "e", "m", "e", "n", "t", "s">>
      [] question_type = "rights" ->
        \* " rights entitlement authority permission"
        <<" ", "r", "i", "g", "h", "t", "s", " ", "e", "n", "t", "i", "t", "l", "e", "m", "e", "n", "t", " ", "a", "u", "t", "h", "o", "r", "i", "t", "y", " ", "p", "e", "r", "m", "i", "s", "s", "i", "o", "n">>
      [] question_type = "consequence" ->
        \* " consequence penalty result outcome"
        <<" ", "c", "o", "n", "s", "e", "q", "u", "e", "n", "c", "e", " ", "p", "e", "n", "a", "l", "t", "y", " ", "r", "e", "s", "u", "l", "t", " ", "o", "u", "t", "c", "o", "m", "e">>
      [] question_type = "timeline" ->
        \* " deadline period time duration"
        <<" ", "d", "e", "a", "d", "l", "i", "n", "e", " ", "p", "e", "r", "i", "o", "d", " ", "t", "i", "m", "e", " ", "d", "u", "r", "a", "t", "i", "o", "n">>
      [] OTHER -> <<>>

\* " " + " ".join(entity_list)
RECURSIVE SpaceJoined(_)
SpaceJoined(entity_list) ==
    IF entity_list = <<>> THEN <<>>
    ELSE <<" ">> \o Head(entity_list) \o SpaceJoined(Tail(entity_list))

\* The extracted entities of every non-empty list, in key order
EntityContext(entities) ==
    Flatten([k \in 1..Len(entities) |-> SpaceJoined(entities[k])])

_optimize_search_query(question, question_type, entities) ==
    question \o TypeContext(question_type) \o EntityContext(entities)

OptimizedQuery(question) ==
    _optimize_search_query(question, _classify_question_type(question),
                           _extract_legal_entities_from_question(question))

\* "who can terminate"
QueryWho ==
    <<"w", "h", "o", " ", "c", "a", "n", " ", "t", "e", "r", "m", "i", "n", "a", "t", "e">>

\* context_limit of an answer request
ContextLimit == 2

\* The questions asked, each with the user who asks it
Askers == {[question |-> QueryFee, user_id |-> "u1"],
           [question |-> QueryWho, user_id |-> ""]}

\* The search an enhanced answer request makes: document_ids=None,
\* min_similarity=0.7, enable_caching=True
AnswerSearch(question, user_id) ==
    [query |-> OptimizedQuery(question), document_ids |-> <<>>, chunk_types |-> <<>>,
     user_id |-> user_id, limit |-> ContextLimit, similarity_threshold |-> 7000,
     enable_caching |-> TRUE]

AnswerSearches == {AnswerSearch(a.question, a.user_id) : a \in Askers}

(***************************************************************************)
(* Search: the result cache and advanced_semantic_search                   *)
(*                                                                         *)
(* The supabase client is synchronous and no awaited function of a search  *)
(* suspends, so a call of advanced_semantic_search runs from its cache     *)
(* lookup to its return without another coroutine running in between.      *)
(***************************************************************************)
\* _cache_ttl, in minutes
CacheTtl == 30

\* The key with the query as the caller wrote it
RawCacheKey(query, filters) == [query |-> query, filters |-> filters]

\* The md5 digest of the JSON text stands for the text itself: the lowered,
\* stripped query and the filter items
_generate_cache_key(query, filters) ==
    [query |-> Strip(Lower(query)), filters |-> filters]

\* An entry as old as the TTL still counts as valid
NotOlderThanTtl(cached_data, utcnow) == utcnow - cached_data.timestamp <= CacheTtl

\* datetime.utcnow() - cached_data['timestamp'] < self._cache_ttl
StillValid(cached_data, utcnow) == utcnow - cached_data.timestamp < CacheTtl

\* del self._search_cache[cache_key]
DelItem(cache, cache_key) == [k \in DOMAIN cache \ {cache_key} |-> cache[k]]

\* Returns the cached result, if any, and the cache as the lookup leaves it
_get_cached_result(cache, cache_key, utcnow) ==
    IF cache_key \in DOMAIN cache
    THEN IF StillValid(cache[cache_key], utcnow)
         THEN [found |-> TRUE, cached_result |-> cache[cache_key].result, cache |-> cache]
         ELSE [found |-> FALSE, cache |-> DelItem(cache, cache_key)]
    ELSE [found |-> FALSE, cache |-> cache]

_cache_result(cache, cache_key, result, utcnow) ==
    [k \in DOMAIN cache \cup {cache_key} |->
        IF k = cache_key THEN [result |-> result, timestamp |-> utcnow] ELSE cache[k]]

NoIntent ==
    [type |-> "", confidence |-> 0, suggested_filters |-> <<>>, legal_concepts |-> <<>>]

NoFilters == [document_ids |-> <<>>, chunk_types |-> <<>>, similarity_threshold |-> 0]

\* The payload keys that later code reads; expanded_query, legal_entities and
\* search_time are left out
_empty_search_result(query, error_message) ==
    [query |-> query, results |-> <<>>, total_results |-> 0,
     query_intent |-> NoIntent, suggestions |-> <<>>,
     filters_applied |-> NoFilters, error |-> error_message]

NoRoundTrips == [embedding |-> 0, documents |-> 0, vector |-> 0, keyword |-> 0]

\* Apply intent-based filters
ChunkTypes(request, query_intent) ==
    IF query_intent.suggested_filters # <<>> /\ request.chunk_types = <<>>
    THEN query_intent.suggested_filters
    ELSE request.chunk_types

\* Whether the user's own documents are looked up
Resolves(request) == request.user_id # "" /\ request.document_ids = <<>>

DocumentIdsOf(request, faults) ==
    IF Resolves(request)
    THEN _get_accessible_documents(request.user_id, "documents" \in faults)
    ELSE request.document_ids

SearchResult(request, query_intent, document_ids, chunk_types, combined_results) ==
    [result |->
        [query |-> request.query, results |-> combined_results,
         total_results |-> Len(combined_results),
         query_intent |-> query_intent, suggestions |-> <<>>,
         filters_applied |->
             [document_ids |-> document_ids, chunk_types |-> chunk_types,
              similarity_threshold |-> request.similarity_threshold],
         error |-> ""],
     round_trips |->
         [embedding |-> 1, documents |-> IF Resolves(request) THEN 1 ELSE 0,
          vector |-> 1, keyword |-> 1]]

SearchFiltered(ids, request, faults, query_intent, document_ids, chunk_types) ==
    SearchResult(request, query_intent, document_ids, chunk_types,
        _combine_and_rerank_results(
            _enhanced_vector_search(ids, request.query, document_ids, chunk_types,
                                    request.similarity_threshold, request.limit,
                                    "vector" \in faults),
            _perform_keyword_search(ids, request.query, document_ids, chunk_types,
                                    request.limit \div 2, "keyword" \in faults),
            query_intent, request.limit))

SearchWithIntent(ids, request, faults, query_intent) ==
    SearchFiltered(ids, request, faults, query_intent,
                   DocumentIdsOf(request, faults), ChunkTypes(request, query_intent))

\* The search proper, from the intent analysis to the result dictionary:
\* `ids` are the chunks the store holds, `faults` the store calls that fail
ComputeSearch(ids, request, faults) ==
    SearchWithIntent(ids, request, faults, _analyze_query_intent(request.query))

FiltersOf(request) ==
    [document_ids |-> request.document_ids, chunk_types |-> request.chunk_types,
     user_id |-> request.user_id, limit |-> request.limit,
     similarity_threshold |-> request.similarity_threshold]

\* The clock advances in steps of TickStep minutes up to MaxTime
TickStep == 15

MaxTime == 45

Request(query, user_id, enable_caching) ==
    [query |-> query, document_ids |-> <<>>, chunk_types |-> <<>>,
     user_id |-> user_id, limit |-> 2, similarity_threshold |-> 7000,
     enable_caching |-> enable_caching]

\* Two spellings of one query for anyone, and a second query for user u1
SearchRequests ==
    {Request(QueryFee, "", c) : c \in BOOLEAN}
        \cup {Request(QueryFeeVariant, "", TRUE), Request(QueryEnd, "u1", TRUE)}

StoreFaults == {{}, {"documents", "vector", "keyword"}}

\* The store calls that fail during a call of advanced_semantic_search
SearchFaults == StoreFaults \cup {{"vector"}, {"keyword"}, {"vector", "keyword"}}

\* The documents whose chunks come and go while searches are made
ReprocessedDocuments == {"d1"}

\* The store contents that result
StoreContents == {ChunkIds \ gone : gone \in
    {{id \in ChunkIds : StoredChunk(id).document_id \in ds} : ds \in SUBSET ReprocessedDocuments}}

\* ComputeSearch for every store content, request and fault, computed once
SearchTable ==
    {[ids |-> ids, request |-> request, faults |-> faults,
      computed |-> ComputeSearch(ids, request, faults)] :
        ids \in StoreContents, request \in SearchRequests \cup AnswerSearches,
        faults \in SearchFaults}

Computed(ids, request, faults) ==
    (CHOOSE row \in SearchTable :
        row.ids = ids /\ row.request = request /\ row.faults = faults).computed

CacheHit(lookup) ==
    [result |-> lookup.cached_result, cache |-> lookup.cache,
     round_trips |-> NoRoundTrips, from_cache |-> TRUE, stored |-> FALSE]

NoEmbedding(request, cache) ==
    [result |-> _empty_search_result(request.query, "Failed to generate query embedding"),
     cache |-> cache, round_trips |-> [NoRoundTrips EXCEPT !.embedding = 1],
     from_cache |-> FALSE, stored |-> FALSE]

Searched(request, cache, cache_key, utcnow, computed) ==
    [result |-> computed.result,
     cache |-> IF request.enable_caching
               THEN _cache_result(cache, cache_key, computed.result, utcnow)
               ELSE cache,
     round_trips |-> computed.round_trips,
     from_cache |-> FALSE, stored |-> request.enable_caching]

AfterLookup(utcnow, ids, dimension, request, faults, cache_key, lookup) ==
    IF lookup.found THEN CacheHit(lookup)
    ELSE IF dimension = 0 THEN NoEmbedding(request, lookup.cache)
    ELSE Searched(request, lookup.cache, cache_key, utcnow,
                  Computed(ids, request, faults))

\* A call that does not look into the cache
LookupNothing(cache, utcnow, request, cache_key) == [found |-> FALSE, cache |-> cache]

Lookup(cache, utcnow, request, cache_key) ==
    IF request.enable_caching THEN _get_cached_result(cache, cache_key, utcnow)
    ELSE [found |-> FALSE, cache |-> cache]

WithKey(cache, utcnow, ids, dimension, request, faults, cache_key) ==
    AfterLookup(utcnow, ids, dimension, request, faults, cache_key,
                Lookup(cache, utcnow, request, cache_key))

\* Returns the result, the cache as the call leaves it, and what the call did
advanced_semantic_search(cache, utcnow, ids, dimension, request, faults) ==
    WithKey(cache, utcnow, ids, dimension, request, faults,
            _generate_cache_key(request.query, FiltersOf(request)))

(***************************************************************************)
(* Search: calls of advanced_semantic_search over time                     *)
(***************************************************************************)
\* What a caller means by "the same search": the query compared after
\* lower-casing and stripping, and the filters
SearchOf(request) ==
    [query |-> Strip(Lower(request.query)), filters |-> FiltersOf(request)]

NoCall == [made |-> FALSE]

SearchInit ==
    /\ _search_cache = <<>>
    /\ now = 0
    /\ indexed = ChunkIds
    /\ call = NoCall
    /\ stored_calls = {}

\* One call of advanced_semantic_search, from entry to return.  `call` keeps
\* what the call did and what it found; `stored_calls` keeps every call that
\* wrote its result to the cache less than CacheTtl minutes ago
SearchCall(fault_sets) ==
    /\ \E request \in SearchRequests, faults \in fault_sets :
        \E out \in {advanced_semantic_search(_search_cache, now, indexed,
                                              embedding_dimension, request, faults)},
           cache_key \in {_generate_cache_key(request.query, FiltersOf(request))} :
           /\ _search_cache' = out.cache
           /\ call' = [made |-> TRUE, request |-> request, cache_key |-> cache_key,
                       time |-> now, faults |-> faults,
                       found_age |-> IF cache_key \in DOMAIN _search_cache
                                     THEN now - _search_cache[cache_key].timestamp
                                     ELSE Missing,
                       found_result |-> IF cache_key \in DOMAIN _search_cache
                                        THEN _search_cache[cache_key].result
                                        ELSE out.result,
                       earlier |-> {c \in stored_calls : c.search = SearchOf(request)},
                       result |-> out.result, round_trips |-> out.round_trips,
                       from_cache |-> out.from_cache, stored |-> out.stored]
           /\ stored_calls' =
                  IF out.stored
                  THEN stored_calls \cup
                       {[search |-> SearchOf(request), time |-> now, result |-> out.result]}
                  ELSE stored_calls
    /\ UNCHANGED <<now, indexed>>

AdvancedSemanticSearch == SearchCall(StoreFaults)

Tick ==
    /\ now + TickStep <= MaxTime
    /\ now' = now + TickStep
    /\ stored_calls' = {c \in stored_calls : now' - c.time < CacheTtl}
    /\ UNCHANGED <<_search_cache, indexed, call>>

\* A reprocess deletes the chunks of a document, or ingestion stores them
\* again; the cache is not told
StoreChange ==
    /\ \E document_id \in ReprocessedDocuments :
        LET chunks == {id \in ChunkIds : StoredChunk(id).document_id = document_id}
        IN indexed' = IF chunks \subseteq indexed
                      THEN indexed \ chunks ELSE indexed \cup chunks
    /\ UNCHANGED <<_search_cache, now, call, stored_calls>>

SearchNext ==
    /\ \/ AdvancedSemanticSearch
       \/ Tick
       \/ StoreChange
    /\ UNCHANGED notSearchVars

\* C2: a call with caching enabled, made less than 30 minutes after a call
\* for the same query (after lower-casing and stripping) and the same
\* filters stored its result, returns that stored payload unchanged and
\* issues no embedding, vector-search or keyword-search call.
C2_CacheHitReturnsStoredPayload ==
    (call.made /\ call.request.enable_caching) =>
        \A first \in call.earlier :
            call.time - first.time < CacheTtl =>
                /\ call.result = first.result
                /\ call.round_trips = NoRoundTrips

\* A later call, spelt differently from the one that stored the payload,
\* got that payload although the store now answers the search differently
C2_Witness ==
    /\ call.made
    /\ call.request.enable_caching
    /\ call.from_cache
    /\ \E first \in call.earlier :
        /\ first.time < call.time
        /\ call.result = first.result
    /\ call.result.query # call.request.query
    /\ call.result # Computed(indexed, call.request, {}).result

\* C3: a lookup that finds an entry written 30 minutes ago or longer does not
\* answer from the cache: the search is recomputed against the store, and the
\* key then holds the recomputed result with the time of this call.
C3_ExpiredEntryIsRecomputed ==
    (call.made /\ call.request.enable_caching /\ call.found_age >= CacheTtl) =>
        /\ ~call.from_cache
        /\ call.round_trips.embedding = 1
        /\ call.round_trips.vector = 1
        /\ call.round_trips.keyword = 1
        /\ call.cache_key \in DOMAIN _search_cache
        /\ _search_cache[call.cache_key] =
               [result |-> call.result, timestamp |-> call.time]

\* A call found an entry of exactly the TTL's age or older and stored a
\* result that differs from the one it replaced
C3_Witness ==
    /\ call.made
    /\ call.request.enable_caching
    /\ call.found_age >= CacheTtl
    /\ call.stored
    /\ call.found_result # call.result
    /\ _search_cache[call.cache_key].timestamp = call.time

\* The entries of the cache that have not expired at the present time
Unexpired == {k \in DOMAIN _search_cache : StillValid(_search_cache[k], now)}

\* C20: calls of advanced_semantic_search for the same cache key, in any
\* order and with the store changing between them, never replace or remove
\* a cache entry that has not expired, and every call served from the cache
\* returns the payload of the unexpired entry that was written first.
C20_UnexpiredEntryIsNeverReplaced ==
    [][/\ \A k \in Unexpired :
             /\ k \in DOMAIN _search_cache'
             /\ _search_cache'[k] = _search_cache[k]
       /\ (call' # call /\ call'.from_cache)
             => /\ call'.cache_key \in Unexpired
                /\ call'.result = _search_cache[call'.cache_key].result]_vars

\* A call was served from an entry written at an earlier time, after the
\* store had changed so that computing the result anew would give another
\* payload, and the entry is still the one that was written
C20_Witness ==
    /\ call.made
    /\ call.from_cache
    /\ call.cache_key \in Unexpired
    /\ _search_cache[call.cache_key].timestamp < call.time
    /\ _search_cache[call.cache_key].result = call.result
    /\ Computed(indexed, call.request, {}).result.results # call.result.results

\* The cache keys of the requests that use the cache
RequestKeys ==
    {_generate_cache_key(request.query, FiltersOf(request)) :
        request \in {r \in SearchRequests : r.enable_caching}}

\* C21: the cache holds at most a fixed number of entries however many
\* distinct keys are searched; for the keys of the requests made here, it
\* never holds an entry for every one of them at once.
C21_CacheSizeIsBounded ==
    Cardinality(DOMAIN _search_cache) < Cardinality(RequestKeys)

\* |query terms \cap content terms| / |query terms| of a result of the call
OverlapScore(result) ==
    MatchScore(Range(Words(Lower(call.request.query))),
               Range(Words(Lower(result.content))))

\* The score a result has after the boost for the intent and the cap at 1,
\* when its score before them is base
BoostedAndCapped(result, base) ==
    Min(base + _calculate_intent_boost(result, call.result.query_intent), Unit)

\* C22: in the result list of a search, a chunk tagged hybrid came through
\* the vector query and scores its vector score plus 0.2, and a chunk tagged
\* keyword came through the keyword query only and scores its overlap score
\* |query terms \cap content terms| / |query terms|; both as they stand
\* after the boost for the query intent and the cap at 1.
C22_HybridAndKeywordScores ==
    call.made =>
        \A i \in 1..Len(call.result.results) :
            LET result == call.result.results[i]
            IN /\ result.source = "hybrid" =>
                      /\ result.enhanced_score # Missing
                      /\ result.combined_score =
                             BoostedAndCapped(result, result.enhanced_score + 2000)
               /\ result.source = "keyword" =>
                      /\ result.enhanced_score = Missing
                      /\ result.combined_score =
                             BoostedAndCapped(result, OverlapScore(result))

(***************************************************************************)
(* Search: calls of advanced_semantic_search while store calls fail        *)
(***************************************************************************)
\* A call during which any of the vector query and the keyword query fails
SearchWithFailingStore == SearchCall(SearchFaults)

FaultStoreChange == StoreChange

FaultNext ==
    /\ \/ SearchWithFailingStore
       \/ FaultStoreChange
    /\ UNCHANGED notSearchVars

\* The call went to the store and one of its two queries failed
QueryFailed ==
    /\ call.made /\ ~call.from_cache
    /\ call.faults \cap {"vector", "keyword"} # {}

Sources(results) == {results[i].source : i \in 1..Len(results)}

\* The statement as made: if the store fails during the vector query or the
\* keyword query, the call returns a result object with zero results that
\* carries an error string.
C15_FailedQueryGivesErrorResult ==
    QueryFailed =>
        /\ call.result.results = <<>>
        /\ call.result.total_results = 0
        /\ call.result.error # ""

\* C15: if the store fails during the vector query or the keyword query of
\* a search, the call raises no exception and returns an ordinary result
\* object without an error string; the failed query contributes no result,
\* so the results are those found by the other query alone, and there are
\* zero results when both queries fail.
C15_FailedQueryContributesNothing ==
    QueryFailed =>
        /\ call.result.error = ""
        /\ call.result.total_results = Len(call.result.results)
        /\ "vector" \in call.faults =>
               Sources(call.result.results) \subseteq {"keyword"}
        /\ "keyword" \in call.faults =>
               Sources(call.result.results) \subseteq {"vector"}
        /\ {"vector", "keyword"} \subseteq call.faults => call.result.results = <<>>

\* The keyword query failed and the call still returned what the vector
\* query found
C15_Witness ==
    /\ QueryFailed
    /\ call.faults = {"keyword"}
    /\ call.result.results # <<>>
    /\ call.result.error = ""

(***************************************************************************)
(* Answers: the confidence score (enhanced_rag_service.py)                 *)
(***************************************************************************)
\* "document" and "section", the citation wording the score looks for
KwDocument == <<"d", "o", "c", "u", "m", "e", "n", "t">>

KwSectionWord == <<"s", "e", "c", "t", "i", "o", "n">>

\* [c for c in context_chunks if c.get('similarity_score', 0) > 0.8]
HighQualityChunks(context_chunks) ==
    SelectSeq(context_chunks, LAMBDA c : SimilarityOf(c) > 8000)

\* Factor 1: min(len(high_quality_chunks) * 0.1, 0.3)
ChunkFactor(context_chunks) ==
    Min(Len(HighQualityChunks(context_chunks)) * 1000, 3000)

\* No increment for the length of the answer
NoLengthFactor(answer) == 0

\* Factor 2, first half: len(answer) > 200
LengthFactor(answer) == IF Len(answer) > 200 THEN 1000 ELSE 0

\* Factor 2, second half: 'document' in answer.lower() and 'section' in answer.lower()
CitationFactor(answer_lower) ==
    IF Contains(answer_lower, KwDocument) /\ Contains(answer_lower, KwSectionWord)
    THEN 1000 ELSE 0

\* len(set(c.get('document_id') for c in context_chunks)); a chunk without
\* the key counts as the document None
UniqueDocs(context_chunks) ==
    Cardinality({context_chunks[i].document_id : i \in 1..Len(context_chunks)})

\* Factor 3: more than one document among the sources
SourcesFactor(context_chunks) == IF UniqueDocs(context_chunks) > 1 THEN 1000 ELSE 0

\* The sum of the base score 0.5 and the factors
ConfidenceUnclamped(context_chunks, question, answer) ==
    5000 + ChunkFactor(context_chunks) + LengthFactor(answer)
         + CitationFactor(Lower(answer)) + SourcesFactor(context_chunks)

\* The sum returned as it is
ConfidenceWithoutCap(context_chunks, question, answer) ==
    ConfidenceUnclamped(context_chunks, question, answer)

\* return min(score, 1.0)
_calculate_confidence_score(context_chunks, question, answer) ==
    Min(ConfidenceUnclamped(context_chunks, question, answer), Unit)

\* "Unable to answer the question: "
UnableToAnswer ==
    <<"U", "n", "a", "b", "l", "e", " ", "t", "o", " ", "a", "n", "s", "w", "e", "r", " ", "t", "h", "e", " ", "q", "u", "e", "s", "t", "i", "o", "n", ":", " ">>

\* "No relevant content found"
NoRelevantContent ==
    <<"N", "o", " ", "r", "e", "l", "e", "v", "a", "n", "t", " ", "c", "o", "n", "t", "e", "n", "t", " ", "f", "o", "u", "n", "d">>

\* The confidence_indicators of a response that has none
NoIndicators == [confidence |-> "", confidence_level |-> "", average_similarity |-> Missing]

\* The payload keys that callers read; question_analysis, legal_analysis,
\* response_time and recommendations are left out
_empty_answer_result(question, error_message) ==
    [question |-> question, answer |-> UnableToAnswer \o error_message,
     context_used |-> 0, sources |-> <<>>, cross_references |-> <<>>,
     confidence_score |-> 0, confidence_indicators |-> NoIndicators,
     error |-> error_message]

(***************************************************************************)
(* Confidence: the score computed for arbitrary chunks and answer texts     *)
(***************************************************************************)
MaxChunks == 3

\* A chunk as the score reads it: with or without a similarity score, of
\* one of two documents or of none
ScoredChunks ==
    [similarity_score : {Missing, 8000, 9000}, document_id : {"d1", "d2", NoId}]

\* "See Document 1, Section 2"
AnswerCited ==
    <<"S", "e", "e", " ", "D", "o", "c", "u", "m", "e", "n", "t", " ", "1", ",", " ", "S", "e", "c", "t", "i", "o", "n", " ", "2">>

\* Texts of 200 and of 201 characters, and one with the citation wording
AnswerTexts ==
    {AnswerCited, Repeat("x", 200), Repeat("x", 201),
     AnswerCited \o Repeat("x", 201)}

NotScored == [ran |-> FALSE, confidence_score |-> 0]

Scored(confidence_score) == [ran |-> TRUE, confidence_score |-> confidence_score]

ConfidenceInit ==
    /\ score_in \in [context_chunks : SeqsUpTo(ScoredChunks, MaxChunks),
                     answer : AnswerTexts]
    /\ score_out = [calculated |-> NotScored, empty |-> NotScored]

CalculateConfidenceScore ==
    /\ ~score_out.calculated.ran
    /\ score_out' = [score_out EXCEPT !.calculated =
           Scored(_calculate_confidence_score(score_in.context_chunks, QueryFee,
                                              score_in.answer))]
    /\ UNCHANGED score_in

EmptyAnswerResult ==
    /\ ~score_out.empty.ran
    /\ score_out' = [score_out EXCEPT !.empty =
           Scored(_empty_answer_result(QueryFee, NoRelevantContent).confidence_score)]
    /\ UNCHANGED score_in

ConfidenceNext ==
    /\ \/ CalculateConfidenceScore
       \/ EmptyAnswerResult
    /\ UNCHANGED notConfidenceVars

\* C5: for every list of context chunks, whatever their similarity scores and
\* document ids, and every answer text, the confidence score returned with
\* an answer is at least 0 and at most 1.
C5_ConfidenceWithinUnitInterval ==
    /\ 0 <= score_out.calculated.confidence_score
    /\ score_out.calculated.confidence_score <= Unit
    /\ 0 <= score_out.empty.confidence_score
    /\ score_out.empty.confidence_score <= Unit

\* Three high-quality chunks of two documents and a long answer with the
\* citation wording: the factors add up to 1.1 and the score returned is 1.0
C5_Witness ==
    /\ score_out.calculated.ran
    /\ score_out.empty.ran
    /\ ConfidenceUnclamped(score_in.context_chunks, QueryFee, score_in.answer) > Unit
    /\ score_out.calculated.confidence_score = Unit

\* h: the chunks of the context whose similarity is above 0.8
HighSimilarity(context_chunks) ==
    Cardinality({i \in 1..Len(context_chunks) :
                    /\ context_chunks[i].similarity_score # Missing
                    /\ context_chunks[i].similarity_score > 8000})

IsLong(answer) == Len(answer) > 200

HasCitationWording(answer) ==
    Contains(Lower(answer), KwDocument) /\ Contains(Lower(answer), KwSectionWord)

\* d: 0.1 when the chunks name more than one document
SeveralDocuments(context_chunks) ==
    IF Cardinality({context_chunks[i].document_id : i \in 1..Len(context_chunks)}) > 1
    THEN 1000 ELSE 0

ConfidenceOf(context_chunks, a) ==
    Min(Unit, 5000 + Min(3000, 1000 * HighSimilarity(context_chunks)) + a
                   + SeveralDocuments(context_chunks))

\* C23 as stated: for a non-empty context the confidence is
\* min(1, 0.5 + min(0.3, 0.1*h) + a + d), where a is 0.1 when the answer is
\* both longer than 200 characters and has the citation wording, else 0.
C23_OneIncrementForLongCitedAnswer ==
    (score_out.calculated.ran /\ score_in.context_chunks # <<>>)
    => score_out.calculated.confidence_score =
           ConfidenceOf(score_in.context_chunks,
                        IF IsLong(score_in.answer) /\ HasCitationWording(score_in.answer)
                        THEN 1000 ELSE 0)

\* C23, amended: for a non-empty context the confidence is
\* min(1, 0.5 + min(0.3, 0.1*h) + a + d), where a is 0.1 for an answer
\* longer than 200 characters plus 0.1 for an answer that contains both
\* "document" and "section" in any case, each on its own; h counts the
\* chunks with similarity above 0.8 and d is 0.1 when the chunks name more
\* than one document, a chunk without document id counting as one more.
C23_SeparateIncrementsForLengthAndCitation ==
    (score_out.calculated.ran /\ score_in.context_chunks # <<>>)
    => score_out.calculated.confidence_score =
           ConfidenceOf(score_in.context_chunks,
                        (IF IsLong(score_in.answer) THEN 1000 ELSE 0)
                        + (IF HasCitationWording(score_in.answer) THEN 1000 ELSE 0))

\* A score below 1 for a long answer without the citation wording, over
\* one chunk of high similarity
C23_Witness ==
    /\ score_out.calculated.ran
    /\ Len(score_in.context_chunks) = 1
    /\ HighSimilarity(score_in.context_chunks) = 1
    /\ IsLong(score_in.answer)
    /\ ~HasCitationWording(score_in.answer)
    /\ score_out.calculated.confidence_score = 7000

(***************************************************************************)
(* Answers: semantic_search, the search of the basic answer service        *)
(* (search_service.py)                                                     *)
(***************************************************************************)
\* Get user's accessible documents if user_id provided
SemanticDocumentIds(document_ids, user_id, faults) ==
    IF user_id # "" /\ document_ids = <<>>
    THEN _get_accessible_documents(user_id, "documents" \in faults)
    ELSE document_ids

\* Perform hybrid search if enabled
HybridResults(ids, query, document_ids, chunk_types, limit, include_hybrid, faults) ==
    IF include_hybrid
    THEN _perform_keyword_search(ids, query, document_ids, chunk_types,
                                 limit \div 2, "keyword" \in faults)
    ELSE <<>>

\* The payload keys that later code reads: results and total_results
SemanticResult(query, combined_results, limit) ==
    [_empty_search_result(query, "") EXCEPT
        !.results = Take(combined_results, limit),
        !.total_results = Len(combined_results)]

SemanticFiltered(ids, query, document_ids, chunk_types, limit, similarity_threshold, include_hybrid, faults) ==
    SemanticResult(query,
        _combine_search_results(
            find_similar_chunks(ids, document_ids, chunk_types, similarity_threshold,
                                limit, "vector" \in faults),
            HybridResults(ids, query, document_ids, chunk_types, limit,
                          include_hybrid, faults)),
        limit)

\* An encoder of dimension 0 returns the empty vector, which counts as no
\* embedding
semantic_search(ids, dimension, query, document_ids, chunk_types, user_id, limit, similarity_threshold, include_hybrid, faults) ==
    IF dimension = 0
    THEN _empty_search_result(query, "Failed to generate query embedding")
    ELSE SemanticFiltered(ids, query,
                          SemanticDocumentIds(document_ids, user_id, faults),
                          chunk_types, limit, similarity_threshold,
                          include_hybrid, faults)

(***************************************************************************)
(* Answers: the basic service (rag_service.py) and the enhanced service    *)
(* (enhanced_rag_service.py)                                               *)
(*                                                                         *)
(* A response keeps the payload keys that callers read: question, answer,  *)
(* context_used, sources, cross_references, confidence_score,              *)
(* confidence_indicators and error.  A key that a response does not have   *)
(* is Missing (a number), "" (a label) or the empty sequence.              *)
(***************************************************************************)
\* max_chars of _select_best_context
MaxChars == 4000

\* A loop over the sorted results that ends at the first chunk it does not
\* take
RECURSIVE SelectUntilRejected(_, _, _, _)
SelectUntilRejected(sorted_results, limit, selected_chunks, total_chars) ==
    IF sorted_results = <<>> THEN selected_chunks
    ELSE IF /\ Len(selected_chunks) < limit
            /\ total_chars + Len(Head(sorted_results).content) < MaxChars
         THEN SelectUntilRejected(Tail(sorted_results), limit,
                                  Append(selected_chunks, Head(sorted_results)),
                                  total_chars + Len(Head(sorted_results).content))
         ELSE selected_chunks

\* The loop over the sorted results: a chunk is taken while fewer than
\* `limit` are selected and the characters stay under max_chars
RECURSIVE SelectChunks(_, _, _, _)
SelectChunks(sorted_results, limit, selected_chunks, total_chars) ==
    IF sorted_results = <<>> THEN selected_chunks
    ELSE IF /\ Len(selected_chunks) < limit
            /\ total_chars + Len(Head(sorted_results).content) < MaxChars
         THEN IF Len(selected_chunks) + 1 >= limit
              THEN Append(selected_chunks, Head(sorted_results))
              ELSE SelectChunks(Tail(sorted_results), limit,
                                Append(selected_chunks, Head(sorted_results)),
                                total_chars + Len(Head(sorted_results).content))
         ELSE IF Len(selected_chunks) >= limit THEN selected_chunks
              ELSE SelectChunks(Tail(sorted_results), limit, selected_chunks, total_chars)

_select_best_context(search_results, limit) ==
    SelectChunks(SortBySimilarity(search_results), limit, <<>>, 0)

\* "..."
Ellipsis == <<".", ".", ".">>

\* content[:200] + "..." if len(content) > 200 else content
Excerpt(content) ==
    IF Len(content) > 200 THEN Take(content, 200) \o Ellipsis ELSE content

SourceOf(chunk, text) ==
    [document_id |-> chunk.document_id, document_title |-> chunk.document_title,
     chunk_type |-> chunk.chunk_type, similarity_score |-> SimilarityOf(chunk),
     text |-> text]

_extract_sources(context_chunks) ==
    [i \in 1..Len(context_chunks) |->
        SourceOf(context_chunks[i], Excerpt(context_chunks[i].content))]

\* content[:150] + "..."
_format_enhanced_sources(context_chunks) ==
    [i \in 1..Len(context_chunks) |->
        SourceOf(context_chunks[i], Take(context_chunks[i].content, 150) \o Ellipsis)]

ConfidenceLevel(avg_similarity) ==
    IF avg_similarity > 8000 THEN "high"
    ELSE IF avg_similarity > 6000 THEN "medium" ELSE "low"

AverageSimilarity(context_chunks) ==
    SumSeq([i \in 1..Len(context_chunks) |-> SimilarityOf(context_chunks[i])])
        \div Len(context_chunks)

Assessed(avg_similarity) ==
    [NoIndicators EXCEPT !.confidence_level = ConfidenceLevel(avg_similarity),
                         !.average_similarity = avg_similarity]

_assess_confidence(context_chunks) ==
    IF context_chunks = <<>> THEN [NoIndicators EXCEPT !.confidence = "low"]
    ELSE Assessed(AverageSimilarity(context_chunks))

\* "I cannot find relevant information in the available documents to answer
\* your question about: "
CannotFind ==
    <<"I", " ", "c", "a", "n", "n", "o", "t", " ", "f", "i", "n", "d", " ",
      "r", "e", "l", "e", "v", "a", "n", "t", " ", "i", "n", "f", "o", "r",
      "m", "a", "t", "i", "o", "n", " ", "i", "n", " ", "t", "h", "e", " ",
      "a", "v", "a", "i", "l", "a", "b", "l", "e", " ", "d", "o", "c", "u",
      "m", "e", "n", "t", "s", " ", "t", "o", " ", "a", "n", "s", "w", "e",
      "r", " ", "y", "o", "u", "r", " ", "q", "u", "e", "s", "t", "i", "o",
      "n", " ", "a", "b", "o", "u", "t", ":", " ">>

\* "No relevant content found in documents"
NoRelevantContentInDocuments ==
    <<"N", "o", " ", "r", "e", "l", "e", "v", "a", "n", "t", " ", "c", "o",
      "n", "t", "e", "n", "t", " ", "f", "o", "u", "n", "d", " ", "i", "n",
      " ", "d", "o", "c", "u", "m", "e", "n", "t", "s">>

\* The response has no confidence_score key: its confidence is the label
\* "none" of confidence_indicators
_generate_no_context_response(question, reason) ==
    [question |-> question,
     answer |-> CannotFind \o question \o <<".", " ">> \o reason,
     context_used |-> 0, sources |-> <<>>, cross_references |-> <<>>,
     confidence_score |-> Missing,
     confidence_indicators |-> [NoIndicators EXCEPT !.confidence = "none"],
     error |-> <<>>]

\* "Unable to generate response"
UnableToGenerate ==
    <<"U", "n", "a", "b", "l", "e", " ", "t", "o", " ", "g", "e", "n", "e",
      "r", "a", "t", "e", " ", "r", "e", "s", "p", "o", "n", "s", "e">>

\* "Error generating response: "
ErrorGeneratingResponse ==
    <<"E", "r", "r", "o", "r", " ", "g", "e", "n", "e", "r", "a", "t", "i",
      "n", "g", " ", "r", "e", "s", "p", "o", "n", "s", "e", ":", " ">>

\* "Error generating answer: "
ErrorGeneratingAnswer ==
    <<"E", "r", "r", "o", "r", " ", "g", "e", "n", "e", "r", "a", "t", "i",
      "n", "g", " ", "a", "n", "s", "w", "e", "r", ":", " ">>

\* str(e) of a failed call of the generation model: "quota"
ModelError == <<"q", "u", "o", "t", "a">>

\* What the generation model does with a prompt: it returns a text, returns
\* no text, or raises
ModelReplies ==
    {[kind |-> "text", text |-> AnswerCited \o Repeat("x", 201)],
     [kind |-> "text", text |-> <<>>],
     [kind |-> "raise", text |-> ModelError]}

\* The answer text of the basic service for a reply
_generate_answer(reply) ==
    IF reply.kind = "raise" THEN ErrorGeneratingResponse \o reply.text
    ELSE IF reply.text = <<>> THEN UnableToGenerate ELSE reply.text

\* The answer text of the enhanced service for a reply
_generate_enhanced_answer(reply) ==
    IF reply.kind = "raise" THEN ErrorGeneratingAnswer \o reply.text
    ELSE IF reply.text = <<>> THEN UnableToGenerate ELSE reply.text

\* The words that _find_cross_references looks for in the context
LegalTerms == <<
    <<"s", "h", "a", "l", "l">>, <<"m", "u", "s", "t">>, <<"m", "a", "y">>, <<"w", "i", "l", "l">>,
    <<"a", "g", "r", "e", "e", "m", "e", "n", "t">>, <<"c", "o", "n", "t", "r", "a", "c", "t">>,
    <<"p", "a", "r", "t", "y">>, <<"c", "l", "a", "u", "s", "e">>, <<"p", "r", "o", "v", "i", "s", "i", "o", "n">> >>

\* The terms found as words of the lower-cased content of some chunk
KeyTerms(context_chunks) ==
    {t \in Range(LegalTerms) :
        \E i \in 1..Len(context_chunks) :
            t \in Range(Words(Lower(context_chunks[i].content)))}

\* list(key_terms)[:5]: which five of more than five terms are kept depends
\* on the iteration order of a set, so every choice of five is possible
TermChoices(key_terms) ==
    {kept \in SUBSET key_terms : Cardinality(kept) = Min(5, Cardinality(key_terms))}

\* " ".join(...); the store matches words, so their order does not matter
\* and the terms are joined in the order of LegalTerms
CrossRefQuery(kept) ==
    Tail(SpaceJoined(SelectSeq(LegalTerms, LAMBDA t : t \in kept)))

CrossReference(result) ==
    [document_title |-> result.document_title,
     content_preview |-> Take(result.content, 200) \o Ellipsis,
     similarity_score |-> SimilarityOf(result)]

\* The related results that are not in the main context, three at most
NewReferences(context_chunks, related_results) ==
    Take([i \in 1..Len(SelectSeq(related_results, LAMBDA r :
                 \A j \in 1..Len(context_chunks) : context_chunks[j].id # r.id)) |->
            CrossReference(SelectSeq(related_results, LAMBDA r :
                 \A j \in 1..Len(context_chunks) : context_chunks[j].id # r.id)[i])],
         3)

\* `kept` are the key terms the query is made of; no key term, no search
_find_cross_references(ids, dimension, context_chunks, kept, user_id, faults) ==
    IF kept = {} THEN <<>>
    ELSE NewReferences(context_chunks,
             semantic_search(ids, dimension, CrossRefQuery(kept), <<>>, <<>>,
                             user_id, 5, 6000, TRUE, faults).results)

NoResponse ==
    [question |-> <<>>, answer |-> <<>>, context_used |-> 0, sources |-> <<>>,
     cross_references |-> <<>>, confidence_score |-> Missing,
     confidence_indicators |-> NoIndicators, error |-> <<>>]

\* A request at rest, at the call of the generation model, or answered:
\* `retrieved` counts the chunks its primary search returned, `model_calls`
\* the calls of the generation model it has made
Answering(pc, service, question, retrieved, context_chunks, cross_references, model_calls, response) ==
    [pc |-> pc, service |-> service, question |-> question, retrieved |-> retrieved,
     context_chunks |-> context_chunks, cross_references |-> cross_references,
     model_calls |-> model_calls, response |-> response]

NotAsked == Answering("idle", "", <<>>, 0, <<>>, <<>>, 0, NoResponse)

\* The retrieval is taken for empty only when there is no result object
NoResultObject(search_results) == FALSE

\* if not search_results.get('results') of the enhanced service
NoResults(search_results) == search_results.results = <<>>

\* if not search_results.get("results") of the basic service
NoContext(search_results) == search_results.results = <<>>

BasicResponse(question, answer_text, context_chunks) ==
    [NoResponse EXCEPT
        !.question = question, !.answer = answer_text,
        !.context_used = Len(context_chunks),
        !.sources = _extract_sources(context_chunks),
        !.confidence_indicators = _assess_confidence(context_chunks)]

AnswerWithContext(question, retrieved, context_chunks, reply) ==
    Answering("done", "basic", question, retrieved, context_chunks, <<>>, 1,
              BasicResponse(question, _generate_answer(reply), context_chunks))

AnswerFrom(question, search_results, context_limit, reply) ==
    IF NoContext(search_results)
    THEN Answering("done", "basic", question, Len(search_results.results),
             <<>>, <<>>, 0,
             _generate_no_context_response(question, NoRelevantContentInDocuments))
    ELSE AnswerWithContext(question, Len(search_results.results),
             _select_best_context(search_results.results, context_limit), reply)

\* generate_content of the basic service is a blocking call, so a request
\* runs from the search to the response in one step
answer_legal_question(ids, dimension, question, user_id, context_limit, faults, reply) ==
    AnswerFrom(question,
        semantic_search(ids, dimension, question, <<>>, <<>>, user_id,
                        context_limit * 2, 7000, TRUE, faults),
        context_limit, reply)

\* Steps 1 to 6 of enhanced_question_answering, up to the awaited call of
\* the generation model
Retrieved(question, search_results, cross_references) ==
    IF NoResults(search_results)
    THEN Answering("done", "enhanced", question, Len(search_results.results),
                   <<>>, <<>>, 0,
                   _empty_answer_result(question, NoRelevantContent))
    ELSE Answering("generating", "enhanced", question, Len(search_results.results),
                   search_results.results, cross_references, 0, NoResponse)

\* Steps 7 to 10: the answer text and the compiled response
EnhancedResponse(question, answer_response, context_chunks, cross_references) ==
    [NoResponse EXCEPT
        !.question = question, !.answer = answer_response,
        !.context_used = Len(context_chunks),
        !.sources = _format_enhanced_sources(context_chunks),
        !.cross_references = cross_references,
        !.confidence_score =
            _calculate_confidence_score(context_chunks, question, answer_response)]

\* answer_legal_question with an encoder of non-zero dimension, for every
\* store content, asker, fault and reply, computed once
AnswerTable ==
    {[ids |-> ids, asker |-> asker, faults |-> faults, reply |-> reply,
      answered |-> answer_legal_question(ids, MaxDim, asker.question, asker.user_id,
                                         ContextLimit, faults, reply)] :
        ids \in StoreContents, asker \in Askers, faults \in StoreFaults,
        reply \in ModelReplies}

AnswerRow(ids, asker, faults, reply) ==
    CHOOSE row \in AnswerTable :
        /\ row.ids = ids /\ row.asker = asker
        /\ row.faults = faults /\ row.reply = reply

\* The search only asks whether the dimension is 0
Answered(ids, dimension, asker, faults, reply) ==
    IF dimension = 0
    THEN answer_legal_question(ids, dimension, asker.question, asker.user_id,
                               ContextLimit, faults, reply)
    ELSE AnswerRow(ids, asker, faults, reply).answered

AnswerInit == answering = NotAsked

AnswerLegalQuestion ==
    /\ answering.pc # "generating"
    /\ \E asker \in Askers, faults \in StoreFaults, reply \in ModelReplies :
        answering' = Answered(indexed, embedding_dimension, asker, faults, reply)
    /\ UNCHANGED searchVars

EnhancedQuestionAnswering ==
    /\ answering.pc # "generating"
    /\ \E asker \in Askers, faults \in StoreFaults :
        \E out \in {advanced_semantic_search(_search_cache, now, indexed,
                        embedding_dimension,
                        AnswerSearch(asker.question, asker.user_id), faults)} :
            \E kept \in TermChoices(KeyTerms(out.result.results)) :
                /\ _search_cache' = out.cache
                /\ answering' = Retrieved(asker.question, out.result,
                       _find_cross_references(indexed, embedding_dimension,
                           out.result.results, kept, asker.user_id, faults))
    /\ UNCHANGED <<now, indexed, call, stored_calls>>

\* The generation model replies to the request that awaits it
GenerateContentAsync ==
    /\ answering.pc = "generating"
    /\ \E reply \in ModelReplies :
        answering' = [answering EXCEPT
            !.pc = "done", !.model_calls = @ + 1,
            !.response = EnhancedResponse(answering.question,
                             _generate_enhanced_answer(reply),
                             answering.context_chunks, answering.cross_references)]
    /\ UNCHANGED searchVars

\* The clock and the store go on while questions are answered
AnswerTick == Tick /\ UNCHANGED answering

AnswerStoreChange == StoreChange /\ UNCHANGED answering

AnswerNext ==
    /\ \/ AnswerLegalQuestion
       \/ EnhancedQuestionAnswering
       \/ GenerateContentAsync
       \/ AnswerTick
       \/ AnswerStoreChange
    /\ UNCHANGED notAnswerVars

\* The no-relevant-content answer of each service
NoRelevantAnswer(service, question) ==
    IF service = "enhanced" THEN UnableToAnswer \o NoRelevantContent
    ELSE CannotFind \o question \o <<".", " ">> \o NoRelevantContentInDocuments

EmptyRetrieval == answering.pc = "done" /\ answering.retrieved = 0

\* The statement as made for both services: whenever the primary search of
\* a question returns zero chunks, the answer is the no-relevant-content
\* answer with confidence 0.0 and empty sources, and the request makes no
\* call of the generation model.
C4_EmptyRetrievalHasZeroConfidence ==
    /\ answering.retrieved = 0 => answering.model_calls = 0
    /\ EmptyRetrieval =>
        /\ answering.response.answer =
               NoRelevantAnswer(answering.service, answering.question)
        /\ answering.response.sources = <<>>
        /\ answering.response.confidence_score = 0

\* C4: whenever the primary search of a question returns zero chunks, the
\* answer is the service's no-relevant-content answer with empty sources,
\* and the request makes no call of the generation model at any point; the
\* enhanced service returns confidence score 0.0 with it, the basic service
\* returns no confidence score but the confidence label "none".
C4_EmptyRetrievalAnswersWithoutModel ==
    /\ answering.retrieved = 0 => answering.model_calls = 0
    /\ EmptyRetrieval =>
        /\ answering.response.answer =
               NoRelevantAnswer(answering.service, answering.question)
        /\ answering.response.sources = <<>>
        /\ answering.service = "enhanced" =>
               answering.response.confidence_score = 0
        /\ answering.service = "basic" =>
               /\ answering.response.confidence_score = Missing
               /\ answering.response.confidence_indicators.confidence = "none"

\* The enhanced service answered from a cached empty result, without a call
\* of the generation model, while the store holds every chunk again
C4_Witness ==
    /\ EmptyRetrieval
    /\ answering.service = "enhanced"
    /\ answering.question = QueryFee
    /\ answering.model_calls = 0
    /\ answering.response.confidence_score = 0
    /\ indexed = ChunkIds
    /\ DOMAIN _search_cache # {}
    /\ \A k \in DOMAIN _search_cache : _search_cache[k].timestamp = now

(***************************************************************************)
(* Repeated calls of the chunker and the encoder                           *)
(*                                                                         *)
(* _process_txt has no await and _generate_text_embedding is synchronous;  *)
(* _process_pdf and _process_docx work on the locals of their closure.  A  *)
(* call therefore runs as one step, and calls interleave as whole calls.   *)
(***************************************************************************)
\* Calls made after the remembered one
MaxCallsSince == 2

RepeatFiles ==
    UploadFiles \cup OtherFiles
        \cup {[file_type |-> "pdf", pages |-> << <<" ">>, <<"a">> >>,
               ocr |-> << <<"a", NL, NL, "a">>, <<>> >>]}

RepeatTexts == KeywordTexts \cup { <<>>, <<"a">>, <<"a", ",", " ">>, <<Surrogate>> }

NotCalled == [fn |-> "none"]

\* One call: the function, what it was given and what it returned
ChunkerCall(f) ==
    [fn |-> "process_document", input |-> f, result |-> process_document(f)]

EncoderCall(text, dimension) ==
    [fn |-> "_generate_text_embedding",
     input |-> [text |-> text, dimension |-> dimension],
     result |-> _generate_text_embedding(text, dimension)]

RepeatInit ==
    /\ earlier_call = NotCalled
    /\ latest_call = NotCalled
    /\ calls_since = 0

\* The call becomes the latest one; the earlier call stays remembered, or
\* the call is remembered in its place
Record(made) ==
    /\ latest_call' = made
    /\ \/ /\ earlier_call # NotCalled
          /\ calls_since < MaxCallsSince
          /\ calls_since' = calls_since + 1
          /\ UNCHANGED earlier_call
       \/ /\ earlier_call' = made
          /\ calls_since' = 0

CallChunker == \E f \in RepeatFiles : Record(ChunkerCall(f))

CallEncoder == \E text \in RepeatTexts : Record(EncoderCall(text, embedding_dimension))

RepeatNext ==
    /\ CallChunker \/ CallEncoder
    /\ UNCHANGED notRepeatVars

SameCall ==
    /\ earlier_call # NotCalled
    /\ earlier_call.fn = latest_call.fn
    /\ earlier_call.input = latest_call.input

BatchSize == 2

\* The most rows the document has in table "document_chunks"
MaxRows == 3

EmbedIds == <<"e1", "e2", "e3", "e4">>

\* A row of table "document_chunks" as select("*") returns it
EmbedRow(id, chunk_type, content) ==
    [id |-> id, chunk_type |-> chunk_type, content |-> content]

\* Content the store holds: the encoded contents and one str.encode() rejects
RowContents == EmbedContents \cup { <<Surrogate>> }

EmbedTables ==
    UNION {{[i \in 1..n |-> EmbedRow(EmbedIds[i], tc[i][1], tc[i][2])] :
               tc \in [1..n -> EmbedTypes \X RowContents]} : n \in 0..MaxRows}

EmbeddingRun(pc, chunks, i, embeddings, processed, status, store_failed, returned) ==
    [pc |-> pc, chunks |-> chunks, i |-> i, embeddings |-> embeddings,
     processed |-> processed, embedding_status |-> status,
     store_failed |-> store_failed, returned |-> returned]

\* returned is "" until the run returns
NoRun == EmbeddingRun("idle", <<>>, 0, <<>>, 0, "", FALSE, "")

EmbedInit ==
    /\ chunk_rows = <<>>
    /\ chunk_embedding = [id \in {} |-> NoVector]
    /\ embedding_run = NoRun

\* The body of the loop of _generate_batch_embeddings for one chunk: the
\* vector of the chunk, or None when building its text raises
ChunkEmbedding(chunk, dimension) ==
    IF "content" \in DOMAIN chunk
    THEN _generate_text_embedding(
             EnhancedText(IF "chunk_type" \in DOMAIN chunk
                          THEN chunk.chunk_type ELSE KwParagraph,
                          chunk.content),
             dimension)
    ELSE PyNone

\* The same loop with a chunk whose text cannot be encoded counted as failed
\* and left out of the list
GenerateBatchDroppingFailed(chunks, dimension) ==
    LET embeddings ==
            [k \in 1..Len(chunks) |->
                IF Utf8Encodable(chunks[k].content)
                THEN ChunkEmbedding(chunks[k], dimension) ELSE PyNone]
        valid_embeddings == SelectSeq(embeddings, LAMBDA emb : emb # PyNone)
    IN valid_embeddings

\* The list without its None entries; the caller tests the result for
\* truth, so None in place of an empty list is the empty list here
_generate_batch_embeddings(chunks, dimension) ==
    LET embeddings == [k \in 1..Len(chunks) |-> ChunkEmbedding(chunks[k], dimension)]
        valid_embeddings == SelectSeq(embeddings, LAMBDA emb : emb # PyNone)
    IN valid_embeddings

\* The updates _store_chunk_embeddings builds from zip(chunks, embeddings)
EmbeddingUpdates(chunks, embeddings) ==
    LET pairs == [k \in 1..Min(Len(chunks), Len(embeddings)) |->
                     [id |-> chunks[k].id, embedding |-> embeddings[k]]]
    IN SelectSeq(pairs, LAMBDA u : u.embedding # PyNone)

\* Column "embedding" after the first n updates were executed
AfterUpdates(column, updates, n) ==
    [id \in DOMAIN column \cup {updates[k].id : k \in 1..n} |->
        LET ks == {k \in 1..n : updates[k].id = id}
        IN IF ks = {} THEN column[id]
           ELSE updates[CHOOSE k \in ks : \A j \in ks : j <= k].embedding]

\* The store receives the chunks of the document
ChunksStored ==
    /\ embedding_run.pc = "idle"
    /\ chunk_rows = <<>>
    /\ chunk_rows' \in EmbedTables \ {<<>>}
    /\ chunk_embedding' = [id \in {chunk_rows'[k].id : k \in 1..Len(chunk_rows')} |-> NoVector]
    /\ UNCHANGED embedding_run

\* generate_embeddings_for_document up to the loop over the batches;
\* get_document_chunks returns [] when the store call fails
StartEmbedding ==
    /\ embedding_run.pc = "idle"
    /\ \E chunks \in {chunk_rows, <<>>} :
          embedding_run' =
              IF chunks = <<>>
              THEN EmbeddingRun("done", chunks, 0, <<>>, 0, "", FALSE, "False")
              ELSE EmbeddingRun("generate", chunks, 0, <<>>, 0, "", FALSE, "")
    /\ UNCHANGED <<chunk_rows, chunk_embedding>>

BatchChunks(run) ==
    SubSeq(run.chunks, run.i + 1, Min(run.i + BatchSize, Len(run.chunks)))

\* One batch through _generate_batch_embeddings
GenerateBatch ==
    /\ embedding_run.pc = "generate"
    /\ embedding_run.i < Len(embedding_run.chunks)
    /\ LET embeddings ==
               _generate_batch_embeddings(BatchChunks(embedding_run),
                                          embedding_dimension)
       IN embedding_run' =
              IF embeddings # <<>>
              THEN [embedding_run EXCEPT !.pc = "store", !.embeddings = embeddings]
              ELSE [embedding_run EXCEPT !.i = @ + BatchSize]
    /\ UNCHANGED <<chunk_rows, chunk_embedding>>

\* _store_chunk_embeddings for the batch: the updates are executed one by
\* one, and the first that fails ends them; the caller ignores the outcome
StoreBatch ==
    /\ embedding_run.pc = "store"
    /\ LET batch_chunks == BatchChunks(embedding_run)
           updates == EmbeddingUpdates(batch_chunks, embedding_run.embeddings)
       IN \E n \in 0..Len(updates) :
             /\ chunk_embedding' = AfterUpdates(chunk_embedding, updates, n)
             /\ embedding_run' =
                    [embedding_run EXCEPT
                        !.pc = "generate",
                        !.i = @ + BatchSize,
                        !.embeddings = <<>>,
                        !.processed = @ + Len(batch_chunks),
                        !.store_failed = @ \/ n < Len(updates)]
    /\ UNCHANGED chunk_rows

\* _update_document_embedding_status, whose failure is logged, and return True
FinishEmbedding ==
    /\ embedding_run.pc = "generate"
    /\ embedding_run.i >= Len(embedding_run.chunks)
    /\ \E status \in {"embedded", ""} :
          embedding_run' =
              [embedding_run EXCEPT
                  !.pc = "done", !.embedding_status = status, !.returned = "True"]
    /\ UNCHANGED <<chunk_rows, chunk_embedding>>

EmbedNext ==
    /\ \/ ChunksStored
       \/ StartEmbedding
       \/ GenerateBatch
       \/ StoreBatch
       \/ FinishEmbedding
    /\ UNCHANGED notEmbedVars

\* The rows of the run whose text the encoder rejects
FailedRows(run) ==
    {k \in 1..Len(run.chunks) : ~Utf8Encodable(run.chunks[k].content)}

\* The vector computed from the row's own type and content
OwnEmbedding(chunk) ==
    _generate_text_embedding(EnhancedText(chunk.chunk_type, chunk.content),
                             embedding_dimension)

\* The batch a row of the run belongs to
BatchOf(k) == (k - 1) \div BatchSize

\* C16: when the run over a document's chunks has ended and the store carried
\* out the updates it was sent, every chunk that shares a batch with a chunk
\* whose vector could not be produced is stored with the embedding computed
\* from its own type and content, and the run returned True.
C16_FailedChunkLeavesTheRestStored ==
    (embedding_run.pc = "done" /\ embedding_run.chunks # <<>>
        /\ ~embedding_run.store_failed)
    => /\ embedding_run.returned = "True"
       /\ \A k \in FailedRows(embedding_run) :
             \A j \in 1..Len(embedding_run.chunks) :
                (j # k /\ BatchOf(j) = BatchOf(k)
                    /\ j \notin FailedRows(embedding_run))
                => chunk_embedding[embedding_run.chunks[j].id]
                       = OwnEmbedding(embedding_run.chunks[j])

\* A run that ended, whose first chunk failed and whose second, of the same
\* batch, was stored with a vector of its own
C16_Witness ==
    /\ embedding_run.pc = "done"
    /\ ~embedding_run.store_failed
    /\ Len(embedding_run.chunks) >= 2
    /\ 1 \in FailedRows(embedding_run)
    /\ 2 \notin FailedRows(embedding_run)
    /\ chunk_embedding[embedding_run.chunks[2].id] # ZeroVector(embedding_dimension)

(***************************************************************************)
(* Answers: the context chunks handed to the generation model              *)
(***************************************************************************)
\* The most rows a search result list holds here
MaxContextRows == 3

\* Lengths of chunk contents: a short one, and two longer than a paragraph
\* the chunker splits, as a paragraph without ". " is
ContentLengths == {10, 1500, 2500}

ContextIds == <<"c1", "c2", "c3", "c4">>

\* A row whose content has n characters, as a search returns it
ContextRow(id, n, similarity_score) ==
    [Row(id, "d1", "paragraph", Run(n), TitleNda) EXCEPT
        !.similarity_score = similarity_score,
        !.combined_score = similarity_score]

ContextResults ==
    UNION {{[i \in 1..k |-> ContextRow(ContextIds[i], ns[i][1], ns[i][2])] :
               ns \in [1..k -> ContentLengths \X {3000, 9000}]} :
           k \in 0..MaxContextRows}

NotChosen == [ran |-> FALSE, service |-> "", context_chunks |-> <<>>]

ContextInit ==
    /\ context_in \in [results : ContextResults, context_limit : 1..MaxContextRows]
    /\ context_out = NotChosen

ContextIdle ==
    /\ ContextInit
    /\ context_in.results = <<>>
    /\ context_in.context_limit = 1

\* answer_legal_question: context_chunks = _select_best_context(results, limit)
SelectBestContext ==
    /\ ~context_out.ran
    /\ context_out' =
           [ran |-> TRUE, service |-> "basic",
            context_chunks |->
                _select_best_context(context_in.results, context_in.context_limit)]
    /\ UNCHANGED context_in

\* enhanced_question_answering: the search is called with limit=context_limit
\* and cuts its list to it; context_chunks = search_results['results'], and
\* _prepare_enhanced_context puts the content of each of them into the prompt
ForwardEnhancedContext ==
    /\ ~context_out.ran
    /\ context_out' =
           [ran |-> TRUE, service |-> "enhanced",
            context_chunks |-> Take(context_in.results, context_in.context_limit)]
    /\ UNCHANGED context_in

ContextNext ==
    /\ \/ SelectBestContext
       \/ ForwardEnhancedContext
    /\ UNCHANGED notContextVars

TotalChars(chunks) == SumSeq([i \in 1..Len(chunks) |-> Len(chunks[i].content)])

\* C18: once the context of a question is chosen, by either answer service,
\* the chunks whose text goes to the generation model number at most the
\* requested context limit and their contents total at most 4000 characters.
C18_ContextWithinLimitAndBudget ==
    context_out.ran
    => /\ Len(context_out.context_chunks) <= context_in.context_limit
       /\ TotalChars(context_out.context_chunks) <= MaxChars

\* The search results in the order _select_best_context walks them
ScoreOrdered == SortBySimilarity(context_in.results)

\* Positions, in that order, of the chunks that went into the context
ChosenPositions ==
    {j \in 1..Len(ScoreOrdered) :
        \E i \in 1..Len(context_out.context_chunks) :
            context_out.context_chunks[i].id = ScoreOrdered[j].id}

\* The chosen chunks ranked above position j
ChosenAbove(j) ==
    SelectSeq(Take(ScoreOrdered, j - 1),
              LAMBDA r : \E k \in ChosenPositions : ScoreOrdered[k].id = r.id)

\* The chunk at position j fits: the limit is not reached and its content
\* keeps the total under the character budget
Fits(j) ==
    /\ Len(ChosenAbove(j)) < context_in.context_limit
    /\ TotalChars(ChosenAbove(j)) + Len(ScoreOrdered[j].content) < MaxChars

BasicContextChosen == context_out.ran /\ context_out.service = "basic"

\* C25 as stated: the context of the basic service is a prefix of the
\* score-ordered search results; after a chunk is rejected for the chunk-count
\* limit or for the character budget, no lower-ranked chunk is added.
C25_ContextIsPrefixOfScoreOrder ==
    BasicContextChosen
    => context_out.context_chunks =
           Take(ScoreOrdered, Len(context_out.context_chunks))

\* C25, amended: the context of the basic service holds, in score order,
\* exactly the chunks that fit when their turn comes; a chunk rejected for the
\* character budget is skipped and a lower-ranked chunk that fits is still
\* added, while nothing is added once the chunk-count limit is reached.
C25_ContextIsGreedySelectionInScoreOrder ==
    BasicContextChosen
    => /\ context_out.context_chunks =
              SelectSeq(ScoreOrdered,
                        LAMBDA r : \E k \in ChosenPositions : ScoreOrdered[k].id = r.id)
       /\ \A j \in 1..Len(ScoreOrdered) : j \in ChosenPositions <=> Fits(j)
       /\ Len(context_out.context_chunks) <= context_in.context_limit

\* A chunk was skipped for the character budget and a lower-ranked one added
C25_Witness ==
    /\ BasicContextChosen
    /\ \E j, k \in 1..Len(ScoreOrdered) :
        /\ j < k
        /\ j \notin ChosenPositions
        /\ Len(ChosenAbove(j)) < context_in.context_limit
        /\ k \in ChosenPositions

(***************************************************************************)
(* Query optimization: the intent of a query and the optimization cache    *)
(* (query_optimization_service.py)                                         *)
(***************************************************************************)
\* self.expansion_patterns in the order of the dict literal; the expansions
\* of a category play no part in the intent and are left out
expansion_patterns ==
    <<[intent_type |-> <<"d", "e", "f", "i", "n", "i", "t", "i", "o", "n", "_", "q", "u", "e", "r", "y">>,
       triggers |-> <<<<"w", "h", "a", "t", " ", "i", "s">>,
                     <<"d", "e", "f", "i", "n", "e">>,
                     <<"m", "e", "a", "n", "i", "n", "g", " ", "o", "f">>,
                     <<"d", "e", "f", "i", "n", "i", "t", "i", "o", "n">>>>],
      [intent_type |-> <<"p", "r", "o", "c", "e", "d", "u", "r", "e", "_", "q", "u", "e", "r", "y">>,
       triggers |-> <<<<"h", "o", "w", " ", "t", "o">>,
                     <<"p", "r", "o", "c", "e", "s", "s", " ", "f", "o", "r">>,
                     <<"s", "t", "e", "p", "s", " ", "t", "o">>,
                     <<"p", "r", "o", "c", "e", "d", "u", "r", "e">>>>],
      [intent_type |-> <<"t", "i", "m", "e", "l", "i", "n", "e", "_", "q", "u", "e", "r", "y">>,
       triggers |-> <<<<"w", "h", "e", "n">>,
                     <<"d", "e", "a", "d", "l", "i", "n", "e">>,
                     <<"p", "e", "r", "i", "o", "d">>,
                     <<"t", "i", "m", "e">>>>],
      [intent_type |-> <<"c", "o", "n", "s", "e", "q", "u", "e", "n", "c", "e", "_", "q", "u", "e", "r", "y">>,
       triggers |-> <<<<"w", "h", "a", "t", " ", "h", "a", "p", "p", "e", "n", "s">>,
                     <<"r", "e", "s", "u", "l", "t">>,
                     <<"c", "o", "n", "s", "e", "q", "u", "e", "n", "c", "e">>,
                     <<"p", "e", "n", "a", "l", "t", "y">>>>],
      [intent_type |-> <<"c", "o", "m", "p", "a", "r", "i", "s", "o", "n", "_", "q", "u", "e", "r", "y">>,
       triggers |-> <<<<"d", "i", "f", "f", "e", "r", "e", "n", "c", "e">>,
                     <<"c", "o", "m", "p", "a", "r", "e">>,
                     <<"v", "e", "r", "s", "u", "s">>,
                     <<"v", "s">>>>]>>

\* self.complexity_indicators in the order of the dict literal
complexity_indicators ==
    <<[complexity |-> "simple",
       indicators |-> <<<<"w", "h", "a", "t">>,
                       <<"w", "h", "e", "n">>,
                       <<"w", "h", "o">>,
                       <<"w", "h", "e", "r", "e">>>>],
      [complexity |-> "moderate",
       indicators |-> <<<<"h", "o", "w">>,
                       <<"w", "h", "y">>,
                       <<"w", "h", "i", "c", "h">>,
                       <<"d", "i", "f", "f", "e", "r", "e", "n", "c", "e">>>>],
      [complexity |-> "complex",
       indicators |-> <<<<"a", "n", "a", "l", "y", "z", "e">>,
                       <<"c", "o", "m", "p", "a", "r", "e">>,
                       <<"e", "v", "a", "l", "u", "a", "t", "e">>,
                       <<"d", "e", "t", "e", "r", "m", "i", "n", "e">>,
                       <<"a", "s", "s", "e", "s", "s">>>>],
      [complexity |-> "advanced",
       indicators |-> <<<<"i", "m", "p", "l", "i", "c", "a", "t", "i", "o", "n", "s">>,
                       <<"c", "o", "n", "s", "e", "q", "u", "e", "n", "c", "e", "s">>,
                       <<"r", "e", "l", "a", "t", "i", "o", "n", "s", "h", "i", "p", "s">>,
                       <<"d", "e", "p", "e", "n", "d", "e", "n", "c", "i", "e", "s">>>>]>>

RECURSIVE JoinWith(_, _)
JoinWith(pieces, sep) ==
    IF Len(pieces) = 1 THEN pieces[1]
    ELSE pieces[1] \o sep \o JoinWith(Tail(pieces), sep)

\* str.replace(old, new)
Replace(s, old, new) == JoinWith(Split(s, old), new)

IntentGeneral == <<"g", "e", "n", "e", "r", "a", "l">>

QuerySuffix == <<"_", "q", "u", "e", "r", "y">>

\* The inner loop over the triggers of one category: the first trigger found
\* in the query sets the primary intent and ends this loop only
RECURSIVE TriggerLoop(_, _, _, _)
TriggerLoop(triggers, intent_type, query_lower, primary_intent) ==
    IF triggers = <<>> THEN primary_intent
    ELSE IF Contains(query_lower, Head(triggers))
         THEN Replace(intent_type, QuerySuffix, <<>>)
         ELSE TriggerLoop(Tail(triggers), intent_type, query_lower, primary_intent)

\* The primary intent of a loop over the categories that ends at the first
\* category with a trigger in the query
RECURSIVE FirstMatchLoop(_, _, _)
FirstMatchLoop(patterns, query_lower, primary_intent) ==
    IF patterns = <<>> THEN primary_intent
    ELSE IF \E i \in DOMAIN Head(patterns).triggers :
                Contains(query_lower, Head(patterns).triggers[i])
         THEN Replace(Head(patterns).intent_type, QuerySuffix, <<>>)
         ELSE FirstMatchLoop(Tail(patterns), query_lower, primary_intent)

\* The outer loop over the categories: it visits every category, whatever
\* the inner loop found
RECURSIVE IntentLoop(_, _, _)
IntentLoop(patterns, query_lower, primary_intent) ==
    IF patterns = <<>> THEN primary_intent
    ELSE IntentLoop(Tail(patterns), query_lower,
                    TriggerLoop(Head(patterns).triggers, Head(patterns).intent_type,
                                query_lower, primary_intent))

\* The loop over the complexity levels ends at the first level with an
\* indicator in the query
RECURSIVE ComplexityLoop(_, _, _)
ComplexityLoop(levels, query_lower, complexity) ==
    IF levels = <<>> THEN complexity
    ELSE IF \E i \in DOMAIN Head(levels).indicators :
                Contains(query_lower, Head(levels).indicators[i])
         THEN Head(levels).complexity
         ELSE ComplexityLoop(Tail(levels), query_lower, complexity)

\* The primary intent and the complexity of the analysis; its other fields
\* do not depend on them
_extract_query_intent(query) ==
    LET query_lower == Strip(Lower(query))
    IN [primary_intent |-> IntentLoop(expansion_patterns, query_lower, IntentGeneral),
        complexity |-> ComplexityLoop(complexity_indicators, query_lower, "simple")]

\* "hello": no category
QueryHello == <<"h", "e", "l", "l", "o">>

\* " What is the Deadline ": definition and timeline
QueryDeadline ==
    <<" ", "W", "h", "a", "t", " ", "i", "s", " ", "t", "h", "e", " ", "D", "e", "a", "d", "l", "i", "n", "e", " ">>

\* "compare the penalty": consequence and comparison
QueryCompare ==
    <<"c", "o", "m", "p", "a", "r", "e", " ", "t", "h", "e", " ", "p", "e", "n", "a", "l", "t", "y">>

\* Queries with a trigger of no category, of one and of two
OptimizerQueries == {QueryHello, QueryFee, QueryDeadline, QueryCompare}

\* hash(str(context)) is one number for the life of the process; every call
\* passes context None
HashOfNone == <<"7">>

\* f"{query}_{hash(str(context))}"
OptimizationCacheKey(query) == query \o <<"_">> \o HashOfNone

\* self._cache_ttl, in seconds
OptimizationCacheTtl == 3600

\* timedelta.seconds is the part of the difference below one day
SecondsPerDay == 86400

TimedeltaSeconds(later, earlier) == (later - earlier) % SecondsPerDay

TotalSeconds(later, earlier) == later - earlier

\* The instants, in seconds, at which the clock is read: half an hour, one
\* hour, one day, and one hour past the day
OptimizerInstants == <<0, 1800, 3600, 86400, 90000>>

\* The test of line 253 on a cached entry
OptimizationStillValid(utcnow, cached_result) ==
    TimedeltaSeconds(utcnow, cached_result.timestamp) < OptimizationCacheTtl

\* The result of steps 1 to 6: the fields that depend on the intent analysis
\* and on the rewriting by the generation model, which is asked for complex
\* and advanced queries only
OptimizationResult(query, enable_ai_rewriting) ==
    LET intent_analysis == _extract_query_intent(query)
    IN [original_query |-> query,
        intent_analysis |-> intent_analysis,
        ai_rewritten |-> enable_ai_rewriting
                            /\ intent_analysis.complexity \in {"complex", "advanced"}]

NotOptimized ==
    [query |-> <<>>, time |-> 0, cached_age |-> Missing, from_cache |-> FALSE,
     result |-> OptimizationResult(<<>>, FALSE)]

OptimizerInit ==
    /\ _optimization_cache = <<>>
    /\ optimizer_now = 0
    /\ optimized = NotOptimized

\* optimize_query: a cached entry that passes the test of line 253 is
\* returned; otherwise the optimization is computed and stored
OptimizeQuery ==
    \E query \in OptimizerQueries, enable_ai_rewriting \in BOOLEAN :
        LET cache_key == OptimizationCacheKey(query)
            cached == cache_key \in DOMAIN _optimization_cache
            cached_age ==
                IF cached
                THEN TotalSeconds(optimizer_now, _optimization_cache[cache_key].timestamp)
                ELSE Missing
            hit == cached /\ OptimizationStillValid(optimizer_now,
                                                    _optimization_cache[cache_key])
            result == OptimizationResult(query, enable_ai_rewriting)
        IN /\ optimized' =
                [query |-> query, time |-> optimizer_now, cached_age |-> cached_age,
                 from_cache |-> hit,
                 result |-> IF hit THEN _optimization_cache[cache_key].result
                            ELSE result]
           /\ _optimization_cache' =
                IF hit THEN _optimization_cache
                ELSE [k \in DOMAIN _optimization_cache \cup {cache_key} |->
                        IF k = cache_key
                        THEN [result |-> result, timestamp |-> optimizer_now]
                        ELSE _optimization_cache[k]]
           /\ UNCHANGED optimizer_now

\* The clock moves on to the next instant
OptimizerTick ==
    /\ \E i \in 1..(Len(OptimizerInstants) - 1) :
        /\ optimizer_now = OptimizerInstants[i]
        /\ optimizer_now' = OptimizerInstants[i + 1]
    /\ UNCHANGED <<_optimization_cache, optimized>>

OptimizerNext ==
    /\ (OptimizeQuery \/ OptimizerTick)
    /\ UNCHANGED notOptimizerVars

\* C24: the primary intent of an optimized query is the first category, in
\* the order definition, procedure, timeline, consequence, comparison, that
\* has a trigger in the query, and general when none has; a later category
\* never overrides an earlier one that matches.
C24_FirstMatchingCategoryIsPrimary ==
    optimized.query # <<>> =>
        optimized.result.intent_analysis.primary_intent =
            FirstMatchLoop(expansion_patterns, Strip(Lower(optimized.query)),
                           IntentGeneral)

\* C30: optimize_query returns a cached optimization only if it was stored
\* less than 3600 seconds earlier; an entry of any greater age, an age of
\* more than one day included, is recomputed.
C30_CachedOptimizationIsYoungerThanTtl ==
    optimized.from_cache => optimized.cached_age < OptimizationCacheTtl

(***************************************************************************)
(* Answers: the order of retrieval, context assembly and generation        *)
(* within one request                                                      *)
(***************************************************************************)
\* "the party shall pay": a content with words _find_cross_references
\* looks for
ContentShall ==
    <<"t", "h", "e", " ", "p", "a", "r", "t", "y", " ", "s", "h", "a", "l", "l", " ", "p", "a", "y">>

PhaseRows ==
    {StoredChunk("c1"), StoredChunk("c3"),
     Row("c2", "d1", "clause", ContentShall, TitleSchedule)}

\* What the primary search of a request may return: up to two rows
PhaseResults == UNION {[1..k -> PhaseRows] : k \in 0..2}

\* A request: the phases it has completed, in order, and where it waits
AnswerRequest(service, pc, enable_cross_reference, context_chunks, trace) ==
    [service |-> service, pc |-> pc,
     enable_cross_reference |-> enable_cross_reference,
     context_chunks |-> context_chunks, trace |-> trace]

NoRequest == AnswerRequest("", "idle", FALSE, <<>>, <<>>)

PhaseInit == answer_request = NoRequest

\* A request that searches for cross-references whatever its context holds
AlwaysSearched(context_chunks, enable_cross_reference) == TRUE

\* The search of _find_cross_references is made when cross-references are
\* enabled, there is a context chunk and the context holds a key term
CrossReferenceSearched(context_chunks, enable_cross_reference) ==
    /\ enable_cross_reference
    /\ Len(context_chunks) > 0
    /\ KeyTerms(context_chunks) # {}

\* answer_legal_question up to its await of semantic_search
AskBasic ==
    /\ answer_request.pc \in {"idle", "done"}
    /\ answer_request' = AnswerRequest("basic", "retrieving", FALSE, <<>>, <<>>)

\* enhanced_question_answering up to its await of advanced_semantic_search
AskEnhanced ==
    /\ answer_request.pc \in {"idle", "done"}
    /\ \E enable_cross_reference \in BOOLEAN :
        answer_request' =
            AnswerRequest("enhanced", "retrieving", enable_cross_reference, <<>>, <<>>)

\* The primary search returns; the enhanced service may have been served from
\* the result cache, without a call of the store.  The basic service selects
\* and formats its context and calls the blocking generate_content; the
\* enhanced service prepares its context and goes on to the cross-reference
\* search or to generate_content_async
PrimarySearchReturns ==
    /\ answer_request.pc = "retrieving"
    /\ \E results \in PhaseResults,
          from_cache \in (IF answer_request.service = "enhanced" THEN BOOLEAN
                          ELSE {FALSE}) :
        LET searched == IF from_cache THEN <<>> ELSE <<"retrieval">>
        IN answer_request' =
            IF results = <<>>
            THEN [answer_request EXCEPT !.pc = "done", !.trace = searched]
            ELSE IF answer_request.service = "basic"
            THEN [answer_request EXCEPT
                     !.pc = "done",
                     !.context_chunks = _select_best_context(results, ContextLimit),
                     !.trace = searched \o <<"context", "generation">>]
            ELSE [answer_request EXCEPT
                     !.pc = IF CrossReferenceSearched(results,
                                    answer_request.enable_cross_reference)
                            THEN "cross_referencing" ELSE "generating",
                     !.context_chunks = results,
                     !.trace = searched \o <<"context">>]

\* The semantic_search of _find_cross_references returns
CrossReferenceSearchReturns ==
    /\ answer_request.pc = "cross_referencing"
    /\ answer_request' = [answer_request EXCEPT
           !.pc = "generating", !.trace = Append(@, "retrieval")]

\* generate_content_async returns
EnhancedAnswerGenerated ==
    /\ answer_request.pc = "generating"
    /\ answer_request' = [answer_request EXCEPT
           !.pc = "done", !.trace = Append(@, "generation")]

PhaseNext ==
    /\ \/ AskBasic
       \/ AskEnhanced
       \/ PrimarySearchReturns
       \/ CrossReferenceSearchReturns
       \/ EnhancedAnswerGenerated
    /\ UNCHANGED notPhaseVars

PhaseRank(phase) ==
    CASE phase = "retrieval" -> 1
      [] phase = "context" -> 2
      [] phase = "generation" -> 3

\* Phase `later` was run after phase `earlier`
RanAfter(later, earlier) ==
    \E i, j \in 1..Len(answer_request.trace) :
        /\ i < j
        /\ answer_request.trace[i] = earlier
        /\ answer_request.trace[j] = later

TimesRun(phase) ==
    Cardinality({i \in 1..Len(answer_request.trace) : answer_request.trace[i] = phase})

\* C26 as stated: within one request every retrieval of the store is
\* complete before context assembly starts and context assembly is complete
\* before the generation model is called; the phases never run out of the
\* order retrieval, context assembly, generation.
C26_RetrievalThenContextThenGeneration ==
    \A i, j \in 1..Len(answer_request.trace) :
        i < j => PhaseRank(answer_request.trace[i]) <= PhaseRank(answer_request.trace[j])

\* C26, amended: within one request the primary retrieval is complete before
\* context assembly starts, and context assembly and every retrieval are
\* complete before the generation model is called, which ends the phases;
\* the one retrieval that may follow context assembly is the cross-reference
\* search of the enhanced service, made when cross-references are enabled
\* and the context chunks hold a legal key term.
C26_GenerationLastCrossReferencesAfterContext ==
    /\ TimesRun("context") <= 1
    /\ TimesRun("generation") <= 1
    /\ ~RanAfter("retrieval", "generation")
    /\ ~RanAfter("context", "generation")
    /\ TimesRun("generation") = 1 => TimesRun("context") = 1
    /\ TimesRun("retrieval") <= 2
    /\ RanAfter("retrieval", "context") =>
        /\ answer_request.service = "enhanced"
        /\ answer_request.enable_cross_reference
        /\ KeyTerms(answer_request.context_chunks) # {}

\* An enhanced request that searched for cross-references and was answered
C26_Witness ==
    /\ answer_request.pc = "done"
    /\ answer_request.trace = <<"retrieval", "context", "retrieval", "generation">>

(***************************************************************************)
(* Search: whose chunks a search with a user id returns                    *)
(***************************************************************************)
\* u1 and u2 have uploaded one document each, u3 none
SearchUsers == {"u1", "u2", "u3"}

\* The lookup of the user's documents works or fails; the queries work
AccessFaults == {{}, {"documents"}}

AccessCall(made, service, query, user_id, limit, include_hybrid, faults, results) ==
    [made |-> made, service |-> service, query |-> query, user_id |-> user_id,
     limit |-> limit, include_hybrid |-> include_hybrid, faults |-> faults,
     results |-> results]

NoAccessCall == AccessCall(FALSE, "", <<>>, "", 0, FALSE, {}, <<>>)

AccessInit == access_call = NoAccessCall

\* semantic_search with a user id and no document_ids
SemanticSearchAsUser ==
    \E query \in SearchQueries, user_id \in SearchUsers, faults \in AccessFaults,
       limit \in {1, 2, 5}, include_hybrid \in BOOLEAN :
        access_call' =
            AccessCall(TRUE, "semantic", query, user_id, limit, include_hybrid, faults,
                semantic_search(ChunkIds, embedding_dimension, query, <<>>, <<>>,
                                user_id, limit, 7000, include_hybrid, faults).results)

\* advanced_semantic_search with a user id, no document_ids and
\* enable_caching=False: the call goes to the store
AdvancedSearchAsUser ==
    \E query \in SearchQueries, user_id \in SearchUsers, faults \in AccessFaults :
        access_call' =
            AccessCall(TRUE, "advanced", query, user_id,
                Request(query, user_id, FALSE).limit, TRUE, faults,
                ComputeSearch(ChunkIds, Request(query, user_id, FALSE),
                              faults).result.results)

AccessNext ==
    /\ \/ SemanticSearchAsUser
       \/ AdvancedSearchAsUser
    /\ UNCHANGED notAccessVars

\* C27: a search called with a user id and no document-id filter returns
\* only chunks of documents that user uploaded, also when the user owns no
\* document and when the lookup of the user's documents fails.
C27_OnlyChunksOfOwnDocuments ==
    access_call.made =>
        \A i \in 1..Len(access_call.results) :
            UploadedBy(access_call.results[i].document_id) = access_call.user_id

(***************************************************************************)
(* Specifications                                                          *)
(***************************************************************************)
\* A subsystem that a specification does not exercise rests in one state
EncoderIdle == EncoderInit /\ embedding_dimension = MaxDim

MergeIdle ==
    /\ MergeInit
    /\ merge_in.vector_results = <<>>
    /\ merge_in.keyword_results = <<>>
    /\ merge_in.query_intent = _analyze_query_intent(QueryFee)
    /\ merge_in.limit = 1

\* Each specification exercises one subsystem and starts the others at rest
ConfidenceIdle ==
    /\ ConfidenceInit
    /\ score_in.context_chunks = <<>>
    /\ score_in.answer = AnswerCited

Started ==
    /\ ChunkerInit /\ IngestInit /\ SearchInit /\ AnswerInit /\ RepeatInit
    /\ EmbedInit /\ OptimizerInit /\ PhaseInit /\ AccessInit

Rest == Started /\ ContextIdle

InitChunker == Rest /\ EncoderIdle /\ MergeIdle /\ ConfidenceIdle

InitEncoder == Rest /\ EncoderInit /\ MergeIdle /\ ConfidenceIdle

InitMerge == Rest /\ EncoderIdle /\ MergeInit /\ ConfidenceIdle

InitConfidence == Rest /\ EncoderIdle /\ MergeIdle /\ ConfidenceInit

InitContext == Started /\ EncoderIdle /\ MergeIdle /\ ConfidenceIdle /\ ContextInit

SpecChunker == InitChunker /\ [][ChunkerNext]_vars

SpecIngest == InitChunker /\ [][IngestNext]_vars

SpecEncoder == InitEncoder /\ [][EncoderNext]_vars

SpecMerge == InitMerge /\ [][MergeNext]_vars

SpecSearch == InitChunker /\ [][SearchNext]_vars

SpecConfidence == InitConfidence /\ [][ConfidenceNext]_vars

SpecAnswer == InitChunker /\ [][AnswerNext]_vars

SpecFaults == InitChunker /\ [][FaultNext]_vars

SpecRepeat == InitEncoder /\ [][RepeatNext]_vars

SpecEmbed == InitChunker /\ [][EmbedNext]_vars

SpecContext == InitContext /\ [][ContextNext]_vars

SpecOptimizer == InitChunker /\ [][OptimizerNext]_vars

SpecPhases == InitChunker /\ [][PhaseNext]_vars

SpecAccess == InitChunker /\ [][AccessNext]_vars

====
